---- MODULE Spec2Model ----
(***************************************************************************)
(* A model of the AS-MCCFR solver stack of PokerBots2024: the regret /     *)
(* policy store (game_logic/strategy.rs), history condensation             *)
(* (game_logic/visibility.rs), the Game wrapper (game_logic/game.rs) and   *)
(* the iterator (algorithm/mccfr.rs).                                      *)
(*                                                                         *)
(* f32 values are modelled as exact rationals <<n, d>> with d > 0 in       *)
(* lowest terms, so equalities below are equalities of real numbers and    *)
(* floating-point rounding is not part of the model.                       *)
(***************************************************************************)
EXTENDS Integers, Sequences, FiniteSets, TLC

VARIABLES
    \* ---- the store driven by one caller (SpecStore)
    store,          \* [policy_map, regret_map]: one RegretStrategy
    lastCall,       \* the arguments and outcome of the last update call
    ncalls,         \* number of update calls made so far
    \* ---- the store shared by threads (SpecConc)
    shared,         \* [policy_map, regret_map]: one RegretStrategy behind an Arc
    thr,            \* per thread: pc, the call in progress, calls completed, lock held
    observed,       \* the last regrets(k) read and the updates completed when it began
    \* ---- history condensation (SpecHist)
    hist,           \* the two histories under test
    packed,         \* their condensed keys: [word (u64 as limbs), overflow]
    unpacked,       \* History::from of the keys
    \* ---- regret matching as a function (SpecRM)
    rmIn,           \* [reg, mask]: the arguments
    rmOut,          \* the returned distribution, or None before the call
    \* ---- Categorical::with_mask as a function (SpecMask)
    wmIn,           \* [probs, mask]: the distribution and the mask passed
    wmOut,          \* the probabilities of the returned distribution, or None
    \* ---- the observation tracker driven by arbitrary records (SpecObs)
    trk,            \* one ObservationTracker
    lastObs,        \* the last record observed, who was active, the tracker before
    received,       \* per player: the action indices and the last feature vector sent
    nobs,           \* number of records observed so far
    \* ---- map_actions as a function (SpecMap)
    mapIn,          \* the mapper, the action list, the depth and the build of a call
    mapOut,         \* its result, None before the call
    \* ---- the parallel driver (SpecPar)
    par,            \* the MCCFRParallel object: threads, file_name, the runners
    pdriver,        \* the position of run_iterations and its locals
    pthreads,       \* every thread spawned so far: batch, worker, iterations, state
    checkpoints,    \* the number of checkpoints written
    \* ---- the blueprint codec as a function (SpecCodec)
    codecIn,        \* the policy handed to compress_policy
    codecOut,       \* the outcome of compress_policy and of decompress_policy on its result, None before the call
    \* ---- the blueprint lookup as a function (SpecFit)
    fitIn,          \* the blueprint map of the player, the evaluator, the cutoff, the build and the queried key
    fitOut,         \* the outcomes of get_best, get_best_policy and get_exact_policy, None before the call
    \* ---- the index round trip (SpecIdx)
    idxIn,          \* the player action handed to index()
    idxOut,         \* its index and the action from() gives back, None before the call
    \* ---- the auction-poker state machine (SpecAuction)
    auc,            \* the AuctionPokerState
    aucDepth,       \* transitions played from the root, the traversal depth
    \* ---- the iterator (Spec)
    game,           \* MCCFR.game: [tracker, state]
    strategies,     \* MCCFR.strategies: one RegretStrategy per regular player
    iterations,     \* MCCFR.iterations
    nodes_traversed,\* MCCFR.nodes_traversed
    exploration,    \* MCCFR.exploration
    driver,         \* run_iterations: [pc, n, i, player, start]
    stack,          \* the call stack of run_averaging_iteration, innermost frame last
    ret,            \* the value returned by the call that just ended, or None
    trace,          \* the traversals this run started: [player, depth, q, game]
    lastNode        \* what the last step of the iterator did at its node

storeVars == <<store, lastCall, ncalls>>
concVars  == <<shared, thr, observed>>
histVars  == <<hist, packed, unpacked>>
rmVars    == <<rmIn, rmOut>>
distVars  == <<wmIn, wmOut>>
obsVars   == <<trk, lastObs, received, nobs>>
mapVars   == <<mapIn, mapOut>>
parVars   == <<par, pdriver, pthreads, checkpoints>>
codecVars == <<codecIn, codecOut>>
fitVars   == <<fitIn, fitOut>>
idxVars   == <<idxIn, idxOut>>
aucVars   == <<auc, aucDepth>>
mccfrVars == <<game, strategies, iterations, nodes_traversed, exploration,
               driver, stack, ret, trace, lastNode>>
vars == <<storeVars, concVars, histVars, rmVars, mccfrVars, distVars, obsVars, mapVars, parVars, codecVars, fitVars, idxVars, aucVars>>

\* Option<T>
None == [some |-> FALSE, v |-> <<>>]
Some(x) == [some |-> TRUE, v |-> x]

(***************************************************************************)
(* Bounds of the model.                                                    *)
(***************************************************************************)
MaxCalls == 3          \* update calls made by the single caller
MaxDeltaLen == 2       \* longest delta vector the single caller passes
NumThreads == 2        \* worker threads sharing one store
UpdatesPerThread == 2  \* update calls per thread
MaxHistLen == 4        \* longest history condensed
MaxObs == 3            \* records passed to the observation tracker
MaxIterations == 2     \* largest n passed to run_iterations

(***************************************************************************)
(* Rationals.                                                              *)
(***************************************************************************)
Abs(x) == IF x < 0 THEN -x ELSE x

RECURSIVE GCD(_, _)
GCD(a, b) == IF b = 0 THEN a ELSE GCD(b, a % b)

Rat(n, d) ==
    LET s == IF d < 0 THEN -1 ELSE 1
        g == GCD(Abs(n), Abs(d))
    IN  IF n = 0 THEN <<0, 1>> ELSE <<(s * n) \div g, (s * d) \div g>>

RInt(n) == <<n, 1>>
RZero == <<0, 1>>
ROne == <<1, 1>>
RAdd(a, b) == Rat(a[1] * b[2] + b[1] * a[2], a[2] * b[2])
RSub(a, b) == Rat(a[1] * b[2] - b[1] * a[2], a[2] * b[2])
RMul(a, b) == Rat(a[1] * b[1], a[2] * b[2])
RDiv(a, b) == Rat(a[1] * b[2], a[2] * b[1])
RLess(a, b) == a[1] * b[2] < b[1] * a[2]
RLeq(a, b) == a[1] * b[2] <= b[1] * a[2]
RMax(a, b) == IF RLess(a, b) THEN b ELSE a
RMin(a, b) == IF RLess(b, a) THEN b ELSE a

RECURSIVE RSum(_)
RSum(v) == IF v = <<>> THEN RZero ELSE RAdd(v[1], RSum(Tail(v)))

Zeros(len) == [i \in 1..len |-> RZero]
Ones(len) == [i \in 1..len |-> ROne]
Min2(a, b) == IF a < b THEN a ELSE b

(***************************************************************************)
(* RegretStrategy (game_logic/strategy.rs).  A map is a function whose     *)
(* domain is the set of keys present.                                      *)
(***************************************************************************)
EmptyStore == [policy_map |-> <<>>, regret_map |-> <<>>]

Has(map, k) == k \in DOMAIN map

\* DashMap::entry(k).or_insert_with(|| vec![0.0; len])
OrInsertZeros(map, k, len) ==
    IF Has(map, k) THEN map
    ELSE [x \in DOMAIN map \cup {k} |-> IF x = k THEN Zeros(len) ELSE map[x]]

\* a variant of ZipAdd that stores the delta in place of the sum
ZipAddOverwrite(val, d) ==
    [i \in 1..Len(val) |-> IF i <= Len(d) THEN d[i] ELSE val[i]]
\* for (ve, de) in val.iter_mut().zip(d) { *ve += de }: zip stops at the
\* shorter of the two, the stored vector keeps its length.
ZipAdd(val, d) ==
    [i \in 1..Len(val) |-> IF i <= Len(d) THEN RAdd(val[i], d[i]) ELSE val[i]]

\* regrets(k) / policy(k): a clone of the stored vector, or None
Regrets(s, k) == IF Has(s.regret_map, k) THEN Some(s.regret_map[k]) ELSE None
Policy(s, k) == IF Has(s.policy_map, k) THEN Some(s.policy_map[k]) ELSE None

\* let len = d_reg.or(d_strat).expect(..).len()
UpdateLen(d_reg, d_strat) == IF d_reg.some THEN Len(d_reg.v) ELSE Len(d_strat.v)

\* if len != d.len() { panic!(..) } in the d_strat block
StratBlockPanics(d_reg, d_strat) ==
    d_strat.some /\ UpdateLen(d_reg, d_strat) # Len(d_strat.v)

\* a variant of the first block that adds the strategy delta to the
\* regret map
StratBlockIntoRegrets(s, k, d_reg, d_strat) ==
    IF ~d_strat.some THEN s
    ELSE LET ins == OrInsertZeros(s.regret_map, k, UpdateLen(d_reg, d_strat))
         IN  [s EXCEPT !.regret_map = [ins EXCEPT ![k] = ZipAdd(ins[k], d_strat.v)]]
\* The first block of update: `if let Some(d) = d_strat { .. }`.  The entry
\* is inserted before the length test, so a panic leaves it in the map.
StratBlock(s, k, d_reg, d_strat) ==
    IF ~d_strat.some THEN s
    ELSE LET ins == OrInsertZeros(s.policy_map, k, UpdateLen(d_reg, d_strat))
         IN  IF StratBlockPanics(d_reg, d_strat)
             THEN [s EXCEPT !.policy_map = ins]
             ELSE [s EXCEPT !.policy_map = [ins EXCEPT ![k] = ZipAdd(ins[k], d_strat.v)]]

\* The second block of update: `if let Some(d) = d_reg { .. }`.
RegBlock(s, k, d_reg, d_strat) ==
    IF ~d_reg.some THEN s
    ELSE LET ins == OrInsertZeros(s.regret_map, k, UpdateLen(d_reg, d_strat))
         IN  [s EXCEPT !.regret_map = [ins EXCEPT ![k] = ZipAdd(ins[k], d_reg.v)]]

\* update(..) panics: .expect("Pass at least one ..") or the length test
UpdatePanics(d_reg, d_strat) ==
    (~d_reg.some /\ ~d_strat.some) \/ StratBlockPanics(d_reg, d_strat)

\* update(info_set, d_reg, d_strat) run by one caller, start to end: the
\* store it leaves behind, also when it panics part of the way.
StoreUpdate(s, k, d_reg, d_strat) ==
    IF ~d_reg.some /\ ~d_strat.some THEN s
    ELSE IF StratBlockPanics(d_reg, d_strat) THEN StratBlock(s, k, d_reg, d_strat)
    ELSE RegBlock(StratBlock(s, k, d_reg, d_strat), k, d_reg, d_strat)

\* size()
StoreSize(s) == Cardinality(DOMAIN s.policy_map)

(***************************************************************************)
(* SpecStore: one caller makes update calls with arbitrary arguments.      *)
(***************************************************************************)
StoreKeys == {<<1, 0, 0, 0>>, <<201, 0, 0, 0>>}
\* the deltas passed: <<-1>>, <<-1, 1>>, <<-1, 1, 3>>, .. up to MaxDeltaLen
Deltas == {[i \in 1..n |-> RInt(2 * i - 3)] : n \in 1..MaxDeltaLen}
DeltaOpt == {Some(d) : d \in Deltas} \cup {None}

NoCall == [k |-> <<0, 0, 0, 0>>, d_reg |-> None, d_strat |-> None, outcome |-> "none",
           pre |-> EmptyStore]

StoreInit ==
    /\ store = EmptyStore
    /\ lastCall = NoCall
    /\ ncalls = 0

Update(k, d_reg, d_strat) ==
    /\ ncalls < MaxCalls
    /\ store' = StoreUpdate(store, k, d_reg, d_strat)
    /\ lastCall' = [k |-> k, d_reg |-> d_reg, d_strat |-> d_strat,
                    outcome |-> IF UpdatePanics(d_reg, d_strat) THEN "panic" ELSE "ok",
                    pre |-> store]
    /\ ncalls' = ncalls + 1

StoreNext ==
    /\ \E k \in StoreKeys, d_reg \in DeltaOpt, d_strat \in DeltaOpt :
            Update(k, d_reg, d_strat)
    /\ UNCHANGED <<concVars, histVars, rmVars, mccfrVars, distVars, obsVars, mapVars, parVars, codecVars, fitVars, idxVars, aucVars>>

(***************************************************************************)
(* SpecConc: NumThreads threads share one store and each makes             *)
(* UpdatesPerThread calls update(k, Some(ones), d_strat) on the same key   *)
(* and reads regrets(k), or policy(k) and then regrets(k), in between.     *)
(* DashMap::entry takes the write lock of the key's shard and the returned *)
(* reference holds it to the end of the block: a block is a step that      *)
(* takes the lock, inserts the zeros if the key is absent and loads the    *)
(* vector, and a step that stores the sum and drops the lock.  The two     *)
(* blocks lock two different maps one after the other.  regrets(k) and     *)
(* policy(k) clone the vector under the shard's read lock.                 *)
(***************************************************************************)
Threads == 1..NumThreads
ConcKey == <<1, 0, 0, 0>>
ConcLen == 2

RECURSIVE SumDone(_, _)
SumDone(t, n) == IF n = 0 THEN 0 ELSE t[n].done + SumDone(t, n - 1)

\* update calls completed by all threads
Completed == SumDone(thr, NumThreads)

ConcInit ==
    /\ shared = EmptyStore
    /\ thr = [t \in Threads |-> [pc |-> "idle", d_strat |-> None, done |-> 0,
                                  holds |-> "none", loaded |-> <<>>]]
    /\ observed = [by |-> 0, read |-> None, floor |-> 0]

\* a variant of ShardFree for a map without locks
ShardUnguarded(m) == TRUE
\* the shard of map m (policy or regret) that holds the key is not
\* write-locked: entry(k) and get(k) block until this holds
ShardFree(m) == \A t \in Threads : thr[t].holds # m

\* a thread enters update(k, Some(ones), d_strat)
CallUpdate(t, d_strat) ==
    /\ thr[t].pc = "idle"
    /\ thr[t].done < UpdatesPerThread
    /\ thr' = [thr EXCEPT ![t].pc = IF d_strat.some THEN "strat" ELSE "reg",
                          ![t].d_strat = d_strat]
    /\ UNCHANGED <<shared, observed>>

\* policy_map.entry(k).or_insert_with(zeros): the write lock is taken
StratEntry(t) ==
    /\ thr[t].pc = "strat"
    /\ ShardFree("policy")
    /\ LET ins == OrInsertZeros(shared.policy_map, ConcKey, ConcLen)
       IN  /\ shared' = [shared EXCEPT !.policy_map = ins]
           /\ thr' = [thr EXCEPT ![t].pc = "strat_add", ![t].holds = "policy",
                                 ![t].loaded = ins[ConcKey]]
           /\ UNCHANGED observed

\* *ve += de over the entry, then the reference is dropped
StratAdd(t) ==
    /\ thr[t].pc = "strat_add"
    /\ shared' = [shared EXCEPT !.policy_map[ConcKey] = ZipAdd(thr[t].loaded, thr[t].d_strat.v)]
    /\ thr' = [thr EXCEPT ![t].pc = "reg", ![t].holds = "none", ![t].loaded = <<>>]
    /\ UNCHANGED observed

\* regret_map.entry(k).or_insert_with(zeros): the write lock is taken
RegEntry(t) ==
    /\ thr[t].pc = "reg"
    /\ ShardFree("regret")
    /\ LET ins == OrInsertZeros(shared.regret_map, ConcKey, ConcLen)
       IN  /\ shared' = [shared EXCEPT !.regret_map = ins]
           /\ thr' = [thr EXCEPT ![t].pc = "reg_add", ![t].holds = "regret",
                                 ![t].loaded = ins[ConcKey]]
           /\ UNCHANGED observed

\* *ve += de over the entry, the reference is dropped and update returns
RegAdd(t) ==
    /\ thr[t].pc = "reg_add"
    /\ shared' = [shared EXCEPT !.regret_map[ConcKey] = ZipAdd(thr[t].loaded, Ones(ConcLen))]
    /\ thr' = [thr EXCEPT ![t].pc = "idle", ![t].holds = "none", ![t].loaded = <<>>,
                          ![t].done = @ + 1]
    /\ UNCHANGED observed

\* regrets(k) on thread t; floor remembers how many updates had returned
\* on any thread when the read started
ReadRegrets(t) ==
    /\ thr[t].pc = "idle"
    /\ ShardFree("regret")
    /\ observed' = [by |-> t, read |-> Regrets(shared, ConcKey), floor |-> Completed]
    /\ UNCHANGED <<shared, thr>>

\* policy(k) on thread t: the vector is cloned under the read lock of the
\* policy map's shard and the lock is dropped before the call returns.
\* The threads run the same program, so one of them stands for the reader
\* of both maps.
ReadPolicy(t) ==
    /\ t = 1
    /\ thr[t].pc = "idle"
    /\ ShardFree("policy")
    /\ Policy(shared, ConcKey).some
    /\ thr' = [thr EXCEPT ![t].pc = "read_reg", ![t].loaded = Policy(shared, ConcKey).v]
    /\ UNCHANGED <<shared, observed>>

\* regrets(k) on the thread that has just read policy(k) and still holds
\* the clone of the strategy vector
ReadRegretsAfterPolicy(t) ==
    /\ thr[t].pc = "read_reg"
    /\ ShardFree("regret")
    /\ observed' = [by |-> t, read |-> Regrets(shared, ConcKey), floor |-> Completed]
    /\ thr' = [thr EXCEPT ![t].pc = "idle", ![t].loaded = <<>>]
    /\ UNCHANGED shared

ConcNext ==
    /\ \E t \in Threads :
          \/ \E d_strat \in {None, Some(Ones(ConcLen))} : CallUpdate(t, d_strat)
          \/ StratEntry(t)
          \/ StratAdd(t)
          \/ RegEntry(t)
          \/ RegAdd(t)
          \/ ReadRegrets(t)
          \/ ReadPolicy(t)
          \/ ReadRegretsAfterPolicy(t)
    /\ UNCHANGED <<storeVars, histVars, rmVars, mccfrVars, distVars, obsVars, mapVars, parVars, codecVars, fitVars, idxVars, aucVars>>

(***************************************************************************)
(* History condensation (game_logic/visibility.rs).  CondensedInfoSet is   *)
(* a u64, kept here as four 16-bit limbs, least significant first, so      *)
(* that the arithmetic is that of the machine word.                        *)
(***************************************************************************)
MAX_ACTIONS == 200
LimbBase == 65536
U64(n) == <<n, 0, 0, 0>>

\* x * m + a on a u64, for small m and a: the wrapped word and whether the
\* true result left the word (a panic in a debug build, a wrap in release)
MulAdd(x, m, a) ==
    LET t1 == x[1] * m + a
        t2 == x[2] * m + (t1 \div LimbBase)
        t3 == x[3] * m + (t2 \div LimbBase)
        t4 == x[4] * m + (t3 \div LimbBase)
    IN  [word |-> <<t1 % LimbBase, t2 % LimbBase, t3 % LimbBase, t4 % LimbBase>>,
         overflow |-> t4 \div LimbBase > 0]

\* x / m and x % m on a u64, for small m
DivMod(x, m) ==
    LET t4 == x[4]
        t3 == (t4 % m) * LimbBase + x[3]
        t2 == (t3 % m) * LimbBase + x[2]
        t1 == (t2 % m) * LimbBase + x[1]
    IN  [quot |-> <<t1 \div m, t2 \div m, t3 \div m, t4 \div m>>, rem |-> t1 % m]

\* condensed > 1
GreaterThanOne(x) == x # U64(0) /\ x # U64(1)

\* History::into_condensed: the loop over self.0.iter().rev(), from symbol i
\* down to the first, with acc = [word, overflow] so far
RECURSIVE CondenseFrom(_, _, _)
CondenseFrom(h, i, acc) ==
    IF i = 0 THEN acc
    ELSE LET step == MulAdd(acc.word, MAX_ACTIONS, h[i])
         IN  CondenseFrom(h, i - 1, [word |-> step.word,
                                     overflow |-> acc.overflow \/ step.overflow])

\* a variant of into_condensed that starts from 0 instead of 1
IntoCondensedNoMarker(h) == CondenseFrom(h, Len(h), [word |-> U64(0), overflow |-> FALSE])
\* History::into_condensed: let mut condensed = 1, then the loop
IntoCondensed(h) == CondenseFrom(h, Len(h), [word |-> U64(1), overflow |-> FALSE])

\* impl From<CondensedInfoSet> for History
RECURSIVE FromCondensed(_)
FromCondensed(c) ==
    IF GreaterThanOne(c)
    THEN <<DivMod(c, MAX_ACTIONS).rem>> \o FromCondensed(DivMod(c, MAX_ACTIONS).quot)
    ELSE <<>>

(***************************************************************************)
(* SpecHist: two histories grow one observed symbol at a time, as          *)
(* player_info_sets[p].push does, and are condensed and expanded again     *)
(* after each push.                                                        *)
(***************************************************************************)
HistPlayers == {1, 2}
\* the symbols pushed to each history
HistSymbols(p) == IF p = 1 THEN {0, 1, 2, 3, 199} ELSE {0, 199}

HistInit ==
    /\ hist = [p \in HistPlayers |-> <<>>]
    /\ packed = [p \in HistPlayers |-> IntoCondensed(<<>>)]
    /\ unpacked = [p \in HistPlayers |-> FromCondensed(IntoCondensed(<<>>).word)]

PushSymbol(p, s) ==
    /\ Len(hist[p]) < MaxHistLen
    /\ hist' = [hist EXCEPT ![p] = Append(@, s)]
    /\ packed' = [packed EXCEPT ![p] = IntoCondensed(hist'[p])]
    /\ unpacked' = [unpacked EXCEPT ![p] = FromCondensed(packed'[p].word)]

HistNext ==
    /\ \E p \in HistPlayers : \E s \in HistSymbols(p) : PushSymbol(p, s)
    /\ UNCHANGED <<storeVars, concVars, rmVars, mccfrVars, distVars, obsVars, mapVars, parVars, codecVars, fitVars, idxVars, aucVars>>

(***************************************************************************)
(* regret_matching and average_sampling (algorithm/mccfr.rs).  Vectors     *)
(* are indexed from 1: position i holds action index i - 1.                *)
(***************************************************************************)
\* A::max_index() of the game the iterator is run on below
MaxIndex == 3

CountTrue(mask) == Cardinality({i \in DOMAIN mask : mask[i]})

\* a variant of regp that keeps negative regrets
PositivePartUnclipped(reg, mask) ==
    [i \in 1..Min2(Len(reg), Len(mask)) |-> IF mask[i] THEN reg[i] ELSE RZero]
\* regp: negative regrets clipped to 0, then zeroed outside the mask
PositivePart(reg, mask) ==
    [i \in 1..Min2(Len(reg), Len(mask)) |->
        IF mask[i] /\ RLeq(RZero, reg[i]) THEN reg[i] ELSE RZero]

\* vec![1.0 / l as f32; l]
UniformAll(l) == [i \in 1..l |-> Rat(1, l)]

\* regret_matching(reg, mask)
RegretMatching(reg, mask) ==
    LET regp == PositivePart(reg, mask)
        s == RSum(regp)
    IN  IF RLess(RZero, s) THEN [i \in DOMAIN regp |-> RDiv(regp[i], s)]
        ELSE UniformAll(Len(reg))

\* a variant of average_sampling without the bonus in the numerator and
\* without the floor e
AverageSamplingNoFloor(policy, e, b, t) ==
    LET denominator == RAdd(RSum(policy), b)
    IN  [i \in DOMAIN policy |-> RDiv(RMul(t, policy[i]), denominator)]
\* average_sampling(policy, e, b, t)
AverageSampling(policy, e, b, t) ==
    LET denominator == RAdd(RSum(policy), b)
    IN  [i \in DOMAIN policy |->
            RMax(RDiv(RAdd(b, RMul(t, policy[i])), denominator), e)]

(***************************************************************************)
(* SpecRM: regret_matching called once on arguments drawn from small sets. *)
(***************************************************************************)
RMValues == {RInt(-1), RZero, RInt(2)}
Masks == {m \in [1..MaxIndex -> BOOLEAN] : \E i \in 1..MaxIndex : m[i]}

RMInit ==
    /\ rmIn \in [reg : [1..MaxIndex -> RMValues], mask : Masks]
    /\ rmOut = None

CallRegretMatching ==
    /\ ~rmOut.some
    /\ rmOut' = Some(RegretMatching(rmIn.reg, rmIn.mask))
    /\ UNCHANGED rmIn

RMNext ==
    /\ CallRegretMatching
    /\ UNCHANGED <<storeVars, concVars, histVars, mccfrVars, distVars, obsVars, mapVars, parVars, codecVars, fitVars, idxVars, aucVars>>

(***************************************************************************)
(* ObservationTracker (game_logic/visibility.rs) and Game                  *)
(* (game_logic/game.rs).                                                   *)
(***************************************************************************)
NUM_REGULAR_PLAYERS == 2
Players == 0..(NUM_REGULAR_PLAYERS - 1)

\* ObservationTracker::new
TrackerNew == [player_info_sets |-> [p \in Players |-> <<>>],
               player_feature_sets |-> [p \in Players |-> None]]

\* a variant of observe in which every record reaches every player
ObserversAll(obs, active_player_index) == Players
\* the players an observation reaches: all for Public, the active player
\* (if the node is a Player node) for Private, the listed ones for Shared
Observers(obs, active_player_index) ==
    CASE obs.vis = "Public" -> Players
      [] obs.vis = "Private" -> IF active_player_index.some
                                 THEN {active_player_index.v} ELSE {}
      [] obs.vis = "Shared" -> obs.players

\* ObservationTracker::observe
Observe(t, obs, active_player_index) ==
    LET to == Observers(obs, active_player_index)
    IN  CASE obs.info = "Action" ->
                [t EXCEPT !.player_info_sets =
                    [p \in Players |-> IF p \in to THEN Append(@[p], obs.index) ELSE @[p]]]
          [] obs.info = "Features" ->
                [t EXCEPT !.player_feature_sets =
                    [p \in Players |-> IF p \in to THEN Some(obs.features) ELSE @[p]]]
          [] OTHER -> t

\* ObservationTracker::observe_all
RECURSIVE ObserveAll(_, _, _)
ObserveAll(t, observations, active_player_index) ==
    IF observations = <<>> THEN t
    ELSE ObserveAll(Observe(t, Head(observations), active_player_index),
                    Tail(observations), active_player_index)

\* Feature variants; the flag of Suited is kept as the integer it casts to
Suited(x) == [kind |-> "Suited", x |-> IF x THEN 1 ELSE 0, y |-> 0]
Ranks(x, y) == [kind |-> "Ranks", x |-> x, y |-> y]
Pot(x) == [kind |-> "Pot", x |-> x, y |-> 0]

\* impl Into<ActionIndex> for Feature, ActionIndex = u8
FeatureIndex(f) ==
    CASE f.kind = "Suited" -> f.x
      [] f.kind = "Ranks" -> ((f.x % 256) * 13 + (f.y % 256)) % 256
      [] f.kind = "Pot" -> f.x % 256

\* a variant of get_history that prefers the action history when there is one
GetHistoryActionsFirst(t, player) ==
    IF t.player_info_sets[player] # <<>> \/ ~t.player_feature_sets[player].some
    THEN t.player_info_sets[player]
    ELSE [i \in 1..Len(t.player_feature_sets[player].v) |->
             FeatureIndex(t.player_feature_sets[player].v[i])]
\* ObservationTracker::get_history
GetHistory(t, player) ==
    IF t.player_feature_sets[player].some
    THEN [i \in 1..Len(t.player_feature_sets[player].v) |->
             FeatureIndex(t.player_feature_sets[player].v[i])]
    ELSE t.player_info_sets[player]

(***************************************************************************)
(* SpecObs: one tracker is passed up to MaxObs records of every            *)
(* visibility and kind, with every possible active player.                 *)
(***************************************************************************)
ObsActions == {1, 2}
ObsFeatures == {<<Ranks(12, 11), Suited(TRUE)>>, <<Pot(199)>>}
ObsShared == {{0}, {1}, {0, 1}}
ObsActive == {None} \cup {Some(p) : p \in Players}

ObsInfos ==
    {[info |-> "Action", index |-> a, features |-> <<>>] : a \in ObsActions}
    \cup {[info |-> "Features", index |-> 0, features |-> f] : f \in ObsFeatures}
    \cup {[info |-> "Discard", index |-> 0, features |-> <<>>]}

Observations ==
    {[vis |-> v, info |-> r.info, index |-> r.index, features |-> r.features, players |-> {}] :
        v \in {"Public", "Private"}, r \in ObsInfos}
    \cup {[vis |-> "Shared", info |-> r.info, index |-> r.index, features |-> r.features,
           players |-> ps] : r \in ObsInfos, ps \in ObsShared}

NoObs == [obs |-> [vis |-> "none"], active |-> None, pre |-> TrackerNew]

\* whether the record is sent to player p: Public to all, Private to the
\* active player, Shared to the listed players; Discard to nobody
SentTo(p, obs, active) ==
    /\ obs.info # "Discard"
    /\ \/ obs.vis = "Public"
       \/ obs.vis = "Private" /\ active = Some(p)
       \/ obs.vis = "Shared" /\ p \in obs.players

ObsInit ==
    /\ trk = TrackerNew
    /\ lastObs = NoObs
    /\ received = [p \in Players |-> [actions |-> <<>>, features |-> None]]
    /\ nobs = 0

\* observation_tracker.observe(observation, active_player_index)
ObserveRecord(obs, active) ==
    /\ nobs < MaxObs
    /\ nobs' = nobs + 1
    /\ trk' = Observe(trk, obs, active)
    /\ lastObs' = [obs |-> obs, active |-> active, pre |-> trk]
    /\ received' = [p \in Players |->
          IF ~SentTo(p, obs, active) THEN received[p]
          ELSE IF obs.info = "Action"
               THEN [received[p] EXCEPT !.actions = Append(@, obs.index)]
               ELSE [received[p] EXCEPT !.features = Some(obs.features)]]

ObsNext ==
    /\ \E obs \in Observations, active \in ObsActive : ObserveRecord(obs, active)
    /\ UNCHANGED <<storeVars, concVars, histVars, rmVars, mccfrVars, distVars, mapVars, parVars, codecVars, fitVars, idxVars, aucVars>>

(***************************************************************************)
(* The game the iterator is run on: an implementation of the State trait   *)
(* with one node of each kind.  Chance deals player 0 one of two hole      *)
(* cards, a BettingRoundStart marker follows, player 0 acts, a              *)
(* PlayerActionEnd marker follows, player 1 acts in private, and the game  *)
(* ends with zero-sum utilities.  Action indices range over 0..MaxIndex-1 and no     *)
(* player is ever offered all of them.                                     *)
(***************************************************************************)
DealHole(c) == [kind |-> "DealHole", index |-> c]
BettingRoundStart == [kind |-> "BettingRoundStart", index |-> 0]
PlayerActionEnd == [kind |-> "PlayerActionEnd", index |-> 0]
Act(a) == [kind |-> "Act", index |-> a]

\* State::new
StateNew == [node |-> "deal", card |-> 0, a0 |-> 0, a1 |-> 0]

\* the payoff of player 0 at the leaf
Payoff(s) == IF s.a0 = 0 THEN 0 ELSE (2 * s.card - 3) * s.a1

\* State::active_player
ActivePlayer(s) ==
    CASE s.node = "deal" -> [kind |-> "Chance", actions |-> <<DealHole(1), DealHole(2)>>]
      [] s.node = "start" -> [kind |-> "Marker", action |-> BettingRoundStart]
      [] s.node = "p0" -> [kind |-> "Player", player |-> 0, actions |-> <<Act(0), Act(1)>>]
      [] s.node = "mid" -> [kind |-> "Marker", action |-> PlayerActionEnd]
      [] s.node = "p1" -> [kind |-> "Player", player |-> 1, actions |-> <<Act(1), Act(2)>>]
      [] s.node = "end" -> [kind |-> "Terminal",
                            utilities |-> <<RInt(Payoff(s)), RInt(-Payoff(s))>>]

\* ActivePlayer::as_index
AsIndex(ap) == IF ap.kind = "Player" THEN Some(ap.player) ELSE None

\* State::get_observations
GetObservations(s, action) ==
    CASE action.kind = "DealHole" ->
            <<[vis |-> "Shared", info |-> "Action", index |-> action.index, players |-> {0}]>>
      [] action.kind \in {"BettingRoundStart", "PlayerActionEnd"} ->
            <<[vis |-> "Public", info |-> "Discard"]>>
      [] action.kind = "Act" ->
            <<[vis |-> IF s.node = "p1" THEN "Private" ELSE "Public",
               info |-> "Action", index |-> action.index]>>

\* State::update
StateUpdate(s, action) ==
    CASE s.node = "deal" -> [s EXCEPT !.node = "start", !.card = action.index]
      [] s.node = "start" -> [s EXCEPT !.node = "p0"]
      [] s.node = "p0" -> [s EXCEPT !.node = "mid", !.a0 = action.index]
      [] s.node = "mid" -> [s EXCEPT !.node = "p1"]
      [] s.node = "p1" -> [s EXCEPT !.node = "end", !.a1 = action.index]

\* Game::new
GameNew == [observation_tracker |-> TrackerNew, state |-> StateNew]

\* a variant of play that updates the state before it asks who is active
\* and what is observed
PlayUpdateFirst(g, action) ==
    LET state == StateUpdate(g.state, action)
        active_player == ActivePlayer(state)
        observations == GetObservations(state, action)
    IN  [observation_tracker |->
            ObserveAll(g.observation_tracker, observations, AsIndex(active_player)),
         state |-> state]
\* Game::play
Play(g, action) ==
    LET active_player == ActivePlayer(g.state)
        observations == GetObservations(g.state, action)
    IN  [observation_tracker |->
            ObserveAll(g.observation_tracker, observations, AsIndex(active_player)),
         state |-> StateUpdate(g.state, action)]

\* Game::history, the information set key of a player
GetInformationSet(g, player) ==
    IntoCondensed(GetHistory(g.observation_tracker, player)).word

(***************************************************************************)
(* Action abstraction (game_logic/action.rs).  An action is a record with  *)
(* its natural index, Action::index, in the field index.  A filter is kept *)
(* as the set of actions it accepts: of the primitives only Raw can match  *)
(* an AuctionPokerAction, whose to_string and to_usize return None.  The   *)
(* result of a call is a record [panic, v].                                *)
(***************************************************************************)
\* AuctionPokerAction::max_index
AuctionMaxIndex == 83

\* impl Into<ActionIndex> for AuctionPokerAction, the arms of
\* Raise(DeciPercent(size)); a larger size panics and has no index
RaiseIndex(size) ==
    CASE size <= 300 -> 3
      [] size <= 500 -> 4
      [] size <= 600 -> 5
      [] size <= 750 -> 6
      [] size <= 1000 -> 7
      [] size <= 1250 -> 8
      [] size <= 1500 -> 9
      [] size <= 1750 -> 10
      [] size <= 2000 -> 11
      [] size <= 3000 -> 12
      [] size <= 4000 -> 13
      [] size <= 5000 -> 14
      [] size <= 10000 -> 15
      [] size <= 20000 -> 16
      [] size <= 30000 -> 17
      [] size <= 40000 -> 18
      [] size <= 50000 -> 19
      [] size <= 75000 -> 20
      [] size <= 1000000 -> 21

\* the arms of Bid(Amount(x)); a larger amount panics and has no index
BidIndex(x) ==
    CASE x = 0 -> 22
      [] x <= 10 -> 23
      [] x <= 20 -> 24
      [] x <= 30 -> 25
      [] x <= 40 -> 26
      [] x <= 50 -> 27
      [] x <= 60 -> 28
      [] x <= 70 -> 29
      [] x <= 80 -> 30
      [] x <= 90 -> 31
      [] x <= 110 -> 32
      [] x <= 133 -> 33
      [] x <= 150 -> 34
      [] x <= 186 -> 35
      [] x <= 195 -> 36
      [] x <= 230 -> 37
      [] x <= 356 -> 38
      [] x <= 400 -> 39

\* AuctionPokerAction variants; Raise carries DeciPercent(size) and Bid
\* carries Amount(x)
Fold == [kind |-> "Fold", x |-> 0, index |-> 0]
Call == [kind |-> "Call", x |-> 0, index |-> 1]
Check == [kind |-> "Check", x |-> 0, index |-> 2]
Raise(size) == [kind |-> "Raise", x |-> size, index |-> RaiseIndex(size)]
Bid(x) == [kind |-> "Bid", x |-> x, index |-> BidIndex(x)]
BettingRoundEnd == [kind |-> "BettingRoundEnd", x |-> 0, index |-> 100]

\* impl From<ActionIndex> for AuctionPokerAction: the sizes of the arms
\* 3..41 and the amounts of the arms 42..83
RaiseOfIndex ==
    <<30, 80, 130, 180, 230, 280, 330, 380, 430, 480, 530, 580, 630, 680, 730,
      780, 830, 880, 930, 980, 1030, 1080, 1160, 1360, 1750, 2250, 2750, 3250,
      3750, 4500, 5500, 6500, 8000, 9500, 12500, 20000, 37500, 75000, 500000>>
BidOfIndex ==
    <<0, 5, 15, 25, 36, 45, 55, 65, 75, 85, 95, 105, 115, 125, 135, 145, 155,
      165, 175, 185, 195, 205, 215, 225, 235, 245, 255, 265, 275, 285, 295, 305,
      315, 325, 335, 345, 355, 365, 375, 385, 395, 405>>
\* AuctionPokerAction::from(index); an index above 83 panics
AuctionFrom(index) ==
    CASE index = 0 -> Fold
      [] index = 1 -> Call
      [] index = 2 -> Check
      [] index \in 3..41 -> Raise(RaiseOfIndex[index - 2])
      [] index \in 42..AuctionMaxIndex -> Bid(BidOfIndex[index - 41])

\* the actions the abstraction is exercised on
AuctionActions == {Fold, Call, Raise(250), Raise(300), Raise(400), BettingRoundEnd}

\* Filter::new, or, not
FilterNew(raw) == {raw}
FilterOr(left, right) == left \cup right
FilterNot(filter) == AuctionActions \ filter
\* Filter::accepts
Accepts(filter, raw) == raw \in filter

\* ActionMapper::add_filter
AddFilter(mapper, filter, action) ==
    Append(mapper, [filter |-> filter, action |-> action])

\* the position of the first filter that accepts the action, 0 if none does
FirstMatch(mapper, action) ==
    IF \E i \in 1..Len(mapper) : Accepts(mapper[i].filter, action)
    THEN CHOOSE i \in 1..Len(mapper) :
            /\ Accepts(mapper[i].filter, action)
            /\ \A j \in 1..(i - 1) : ~Accepts(mapper[j].filter, action)
    ELSE 0

\* ActionMapper::map; debug_assertions tells whether debug_assert! is
\* compiled in
Map(mapper, action, debug_assertions) ==
    LET i == FirstMatch(mapper, action)
    IN  IF i = 0 THEN [panic |-> TRUE, v |-> action]
        ELSE IF debug_assertions /\ mapper[i].action.index # action.index
        THEN [panic |-> TRUE, v |-> action]
        ELSE [panic |-> FALSE, v |-> mapper[i].action]

\* ActionMapper::to_index, for an action some filter accepts
ToIndex(mapper, action) == FirstMatch(mapper, action) - 1

\* MAX_GAME_DEPTH, scaled to the depth of the game above
MaxGameDepth == 6
\* GameMapper::new
GameMapperNew == [depth_specific_maps |-> [d \in 1..MaxGameDepth |-> None]]
\* GameMapper::update_depth, the slot of the depth
UpdateDepth(gm, mapper, depth) ==
    [gm EXCEPT !.depth_specific_maps[depth + 1] = mapper]

\* a variant of the median that takes the first action of the group
MedianFirst(group) == group[1]
\* let median_index = group.len() / 2; group[median_index]
Median(group) == group[(Len(group) \div 2) + 1]

\* GameMapper::map_actions for an action type with max_index() = max: the
\* actions mapped by the mapper of the depth if there is one, grouped by
\* Action::index in index order, the median of each non-empty group
MapActionsOf(gm, actions, depth, max, debug_assertions) ==
    LET mapper == gm.depth_specific_maps[depth + 1]
        results == [i \in 1..Len(actions) |->
                       IF mapper.some
                       THEN Map(mapper.v, actions[i], debug_assertions)
                       ELSE [panic |-> FALSE, v |-> actions[i]]]
        mapped == [i \in 1..Len(actions) |-> results[i].v]
        RECURSIVE Collect(_)
        Collect(i) ==
            IF i >= max THEN <<>>
            ELSE LET group == SelectSeq(mapped, LAMBDA a : a.index = i)
                 IN  (IF Len(group) > 0 THEN <<Median(group)>> ELSE <<>>)
                     \o Collect(i + 1)
    IN  IF \E i \in 1..Len(actions) : results[i].panic
        THEN [panic |-> TRUE, v |-> <<>>]
        ELSE IF \E i \in 1..Len(mapped) : mapped[i].index >= max
        THEN [panic |-> TRUE, v |-> <<>>]
        ELSE [panic |-> FALSE, v |-> Collect(0)]

(***************************************************************************)
(* MCCFR (algorithm/mccfr.rs).                                             *)
(***************************************************************************)
\* MCCFR::new: bonus and threshold
Bonus == RInt(100)
Threshold == RInt(10000)
\* the epsilon values passed to run_iterations
Epsilons == {Rat(3, 5)}

\* GameMapper::new(None): no mapper at any depth
MapAndIndex(action, depth, index) == <<action, index>>

\* GameMapper::map_actions of the iterator's mapper, GameMapper::new(None),
\* on the game above
MapActions(actions, depth) ==
    MapActionsOf(GameMapperNew, actions, depth, MaxIndex, TRUE).v

\* mask[action.index()] = true for the mapped actions
MaskOf(actions) ==
    [i \in 1..MaxIndex |-> \E j \in 1..Len(actions) : actions[j].index = i - 1]

\* mapped_actions[action.index()] = Some(action)
MappedActionsOf(actions) ==
    [i \in 1..MaxIndex |->
        IF \E j \in 1..Len(actions) : actions[j].index = i - 1
        THEN Some(CHOOSE a \in {actions[j] : j \in 1..Len(actions)} : a.index = i - 1)
        ELSE None]

\* match strategy.regrets(&history) { Some(r) => regret_matching(&r, &mask),
\*                                    None => vec![1.0 / length; length] }
RegretDist(s, history, mask) ==
    IF Regrets(s, history).some
    THEN RegretMatching(Regrets(s, history).v, mask)
    ELSE UniformAll(Len(mask))

Dot(a, b) == RSum([i \in 1..Min2(Len(a), Len(b)) |-> RMul(a[i], b[i])])

\* a variant of the baseline that is always 0
BaselineDropped(regret_updates, regrets) == RZero
\* counter_factual_estimation
Baseline(regret_updates, regrets) == Dot(regret_updates, regrets)

\* a variant of dropped_non_actions with one entry per legal action only
DroppedFiltered(regret_updates, regrets, mask) ==
    [i \in 1..CountTrue(mask) |-> RZero]
\* update_with_cfr, then dropped_non_actions: the zip with the mask
DroppedNonActions(regret_updates, regrets, mask) ==
    [i \in 1..Min2(Len(regret_updates), Len(mask)) |->
        IF mask[i] THEN RSub(regret_updates[i], Baseline(regret_updates, regrets))
        ELSE RZero]

\* a variant of new_normalized that keeps the weights as given
NewUnnormalized(ps) == ps
\* Categorical::new_normalized
NewNormalized(ps) == [i \in DOMAIN ps |-> RDiv(ps[i], RSum(ps))]

\* Categorical::with_mask
WithMask(probs, mask) ==
    LET ps == [i \in DOMAIN probs |-> IF mask[i] THEN probs[i] ELSE RZero]
    IN  IF \A i \in DOMAIN ps : RLess(ps[i], Rat(1, 10000))
        THEN NewNormalized([i \in DOMAIN mask |-> IF mask[i] THEN ROne ELSE RZero])
        ELSE NewNormalized(ps)

\* the indices sample_and_index can return: those of positive weight
Support(probs) == {i \in DOMAIN probs : RLess(RZero, probs[i])}

(***************************************************************************)
(* SpecMask: with_mask called once on a distribution and a mask drawn      *)
(* from small sets.  The distributions are the weight vectors over         *)
(* MaskWeights with a positive sum, divided by their sum; 1 / 10002 is a   *)
(* probability below the 1e-4 threshold of with_mask.                      *)
(***************************************************************************)
MaskWeights == {0, 1, 10001}

RECURSIVE SumInts(_)
SumInts(w) == IF w = <<>> THEN 0 ELSE w[1] + SumInts(Tail(w))

Distributions ==
    {[i \in 1..MaxIndex |-> Rat(w[i], SumInts(w))] :
        w \in {x \in [1..MaxIndex -> MaskWeights] : SumInts(x) > 0}}

MaskInit ==
    /\ wmIn \in [probs : Distributions, mask : Masks]
    /\ wmOut = None

MaskIdle ==
    /\ wmIn = [probs |-> UniformAll(MaxIndex), mask |-> [i \in 1..MaxIndex |-> TRUE]]
    /\ wmOut = None

CallWithMask ==
    /\ ~wmOut.some
    /\ wmOut' = Some(WithMask(wmIn.probs, wmIn.mask))
    /\ UNCHANGED wmIn

MaskNext ==
    /\ CallWithMask
    /\ UNCHANGED <<storeVars, concVars, histVars, rmVars, mccfrVars, obsVars, mapVars, parVars, codecVars, fitVars, idxVars, aucVars>>

(***************************************************************************)
(* map_actions on bounded inputs: a mapper installed at depth 0 of a new   *)
(* GameMapper, a list of actions, one of the depths 0 and 1.               *)
(***************************************************************************)
MaxActions == 3

\* a filter and its representative per index: Fold, Call, the raises up to
\* 300, the raise of 400; nothing accepts BettingRoundEnd
MapperByIndex ==
    AddFilter(AddFilter(AddFilter(AddFilter(<<>>,
        FilterNew(Fold), Fold),
        FilterNew(Call), Call),
        FilterOr(FilterNew(Raise(250)), FilterNew(Raise(300))), Raise(300)),
        FilterNew(Raise(400)), Raise(400))
\* one filter per raise size, everything else folded
MapperBySize ==
    AddFilter(AddFilter(AddFilter(AddFilter(<<>>,
        FilterNew(Raise(250)), Raise(250)),
        FilterNew(Raise(300)), Raise(300)),
        FilterNew(Raise(400)), Raise(400)),
        FilterNot(FilterNew(BettingRoundEnd)), Fold)
\* the mappers installed
Mappers == {MapperByIndex, MapperBySize}

GameMappers ==
    {GameMapperNew} \cup {UpdateDepth(GameMapperNew, Some(m), 0) : m \in Mappers}

ActionLists ==
    UNION {[1..n -> AuctionActions] : n \in 0..MaxActions}

MapInit ==
    /\ mapIn \in [gm : GameMappers, actions : ActionLists, depth : {0, 1},
                   debug_assertions : BOOLEAN]
    /\ mapOut = None

MapIdle ==
    /\ mapIn = [gm |-> GameMapperNew, actions |-> <<>>, depth |-> 0,
                debug_assertions |-> TRUE]
    /\ mapOut = None

CallMapActions ==
    /\ ~mapOut.some
    /\ mapOut' = Some(MapActionsOf(mapIn.gm, mapIn.actions, mapIn.depth,
                                   AuctionMaxIndex, mapIn.debug_assertions))
    /\ UNCHANGED mapIn

MapNext ==
    /\ CallMapActions
    /\ UNCHANGED <<storeVars, concVars, histVars, rmVars, mccfrVars, distVars, obsVars, parVars, codecVars, fitVars, idxVars, aucVars>>

(***************************************************************************)
(* The parallel driver (algorithm/mccfr_parallel.rs).  A spawned thread    *)
(* is "running" while its runner iterates on the shared stores, then       *)
(* "finished" or "panicked"; join turns a finished thread into "joined".   *)
(* A runner is kept as its iterations counter; a thread holds the clone of *)
(* the runner it was spawned on.                                           *)
(***************************************************************************)
MaxWorkers == 3
\* let batch_size = 1000
batch_size == 1000
\* the totals run_iterations is called with
Totals == {0, 999, 1000, 1500, 2000}

\* MCCFR::new as far as the driver is concerned: the iterations counter
RunnerNew == [iterations |-> 0]

\* MCCFRParallel::new
ParNew(threads, file_name) ==
    [threads |-> threads, file_name |-> file_name,
     runners |-> [i \in 1..threads |-> RunnerNew]]

\* let total_batches = iterations / batch_size
TotalBatches(total) == total \div batch_size

\* a variant of the split that drops the remainder
ThreadItersFloor(batch, threads) ==
    [i \in 1..threads |-> batch \div threads]
\* vec![iterations / self.threads; self.threads] and one more for the
\* first iterations % self.threads entries
ThreadIters(batch, threads) ==
    [i \in 1..threads |->
        (batch \div threads) + (IF i - 1 < batch % threads THEN 1 ELSE 0)]

\* the thread handle k of the batch in the list of spawned threads
HandleOf(batch, k) ==
    CHOOSE j \in 1..Len(pthreads) : pthreads[j].batch = batch /\ pthreads[j].worker = k

\* a variant of join that takes a panicked thread for a finished one
JoinReturnsAfterPanic(state) == state \in {"finished", "panicked"}
\* a variant of join that does not wait for the thread
JoinReturnsAtOnce(state) == state \in {"running", "finished"}
\* thread.join() returns Ok once the thread has finished
JoinReturns(state) == state = "finished"

ParIdleDriver == [pc |-> "idle", iterations |-> 0, total_batches |-> 0, i |-> 0,
                  thread_iters |-> <<>>, k |-> 0]

ParInit ==
    /\ par \in {ParNew(threads, file_name) :
                    threads \in 1..MaxWorkers, file_name \in BOOLEAN}
    /\ pdriver = ParIdleDriver
    /\ pthreads = <<>>
    /\ checkpoints = 0

ParIdle ==
    /\ par = ParNew(1, FALSE)
    /\ pdriver = ParIdleDriver
    /\ pthreads = <<>>
    /\ checkpoints = 0

\* run_iterations is called: lines 40-43
ParRunIterations ==
    /\ pdriver.pc = "idle"
    /\ \E total \in Totals :
          pdriver' = [ParIdleDriver EXCEPT !.pc = "batch", !.iterations = total,
                                           !.total_batches = TotalBatches(total)]
    /\ UNCHANGED <<par, pthreads, checkpoints>>

\* for i in 0..total_batches: the head of the loop and lines 46-52
ParBatch ==
    /\ pdriver.pc = "batch"
    /\ IF pdriver.i < pdriver.total_batches
       THEN pdriver' = [pdriver EXCEPT !.pc = "spawn", !.k = 0,
                           !.thread_iters = ThreadIters(batch_size, par.threads)]
       ELSE pdriver' = [pdriver EXCEPT !.pc = "returned"]
    /\ UNCHANGED <<par, pthreads, checkpoints>>

\* for i in 0..self.threads: clone runner i and spawn a thread on it
ParSpawn ==
    /\ pdriver.pc = "spawn"
    /\ IF pdriver.k < par.threads
       THEN /\ pthreads' = Append(pthreads,
                    [batch |-> pdriver.i, worker |-> pdriver.k,
                     iters |-> pdriver.thread_iters[pdriver.k + 1],
                     runner |-> par.runners[pdriver.k + 1],
                     state |-> "running"])
            /\ pdriver' = [pdriver EXCEPT !.k = @ + 1]
       ELSE /\ pdriver' = [pdriver EXCEPT !.pc = "join", !.k = 0]
            /\ UNCHANGED pthreads
    /\ UNCHANGED <<par, checkpoints>>

\* the closure of a thread: runner.run_iterations(iters, epsilon, &mut rng)
\* returns, with the runner's counter raised by iters, or panics
ParWorker ==
    /\ \E j \in 1..Len(pthreads) :
          /\ pthreads[j].state = "running"
          /\ \/ pthreads' = [pthreads EXCEPT
                     ![j].state = "finished",
                     ![j].runner.iterations = @ + pthreads[j].iters]
             \/ pthreads' = [pthreads EXCEPT ![j].state = "panicked"]
    /\ UNCHANGED <<par, pdriver, checkpoints>>

\* for thread in threads: thread.join().unwrap(); self.runners.push(runner)
ParJoin ==
    /\ pdriver.pc = "join"
    /\ IF pdriver.k < par.threads
       THEN LET j == HandleOf(pdriver.i, pdriver.k)
            IN  \/ /\ JoinReturns(pthreads[j].state)
                   /\ pthreads' = [pthreads EXCEPT ![j].state =
                                      IF @ = "finished" THEN "joined" ELSE @]
                   /\ par' = [par EXCEPT !.runners = Append(@, pthreads[j].runner)]
                   /\ pdriver' = [pdriver EXCEPT !.k = @ + 1]
                \/ /\ pthreads[j].state = "panicked"
                   /\ pdriver' = [pdriver EXCEPT !.pc = "panicked"]
                   /\ UNCHANGED <<par, pthreads>>
       ELSE /\ pdriver' = [pdriver EXCEPT !.pc = "save"]
            /\ UNCHANGED <<par, pthreads>>
    /\ UNCHANGED checkpoints

\* if let Some(file_name) = &self.file_name { self.write_to(file_name) }
ParSave ==
    /\ pdriver.pc = "save"
    /\ checkpoints' = IF par.file_name THEN checkpoints + 1 ELSE checkpoints
    /\ pdriver' = [pdriver EXCEPT !.pc = "batch", !.i = @ + 1]
    /\ UNCHANGED <<par, pthreads>>

ParNext ==
    /\ \/ ParRunIterations
       \/ ParBatch
       \/ ParSpawn
       \/ ParWorker
       \/ ParJoin
       \/ ParSave
    /\ UNCHANGED <<storeVars, concVars, histVars, rmVars, mccfrVars, distVars, obsVars,
                   mapVars, codecVars, fitVars, idxVars, aucVars>>

(***************************************************************************)
(* Blueprint codec (game_logic/strategy/blueprint.rs).  A u128 is kept as  *)
(* eight 16-bit limbs, least significant first.                            *)
(***************************************************************************)
MAX_POLICY_LENGTH == 90
MAX_VALUE_SIZE_BITS == 10
CHOSEN_COMPRESSION_BITS == 128
MAX_FIT == CHOSEN_COMPRESSION_BITS \div MAX_VALUE_SIZE_BITS
ARRAY_SIZE == MAX_POLICY_LENGTH \div MAX_FIT
\* the number of limbs of a u128
U128Limbs == 8
U128(n) == [i \in 1..U128Limbs |-> IF i = 1 THEN n ELSE 0]

\* the limbs of x * m + carry, one limb longer than x
RECURSIVE MulAddLimbs(_, _, _)
MulAddLimbs(x, m, carry) ==
    IF x = <<>> THEN <<carry>>
    ELSE <<(x[1] * m + carry) % LimbBase>>
         \o MulAddLimbs(Tail(x), m, (x[1] * m + carry) \div LimbBase)

\* x * m + a on a u128, for small m and a: the wrapped word and whether the
\* true result left the word
U128MulAdd(x, m, a) ==
    LET r == MulAddLimbs(x, m, a)
    IN  [word |-> SubSeq(r, 1, Len(x)), overflow |-> r[Len(x) + 1] > 0]

\* the running dividend of the long division of x by m at limb i
RECURSIVE DivStep(_, _, _)
DivStep(x, m, i) ==
    IF i > Len(x) THEN 0 ELSE (DivStep(x, m, i + 1) % m) * LimbBase + x[i]

\* x / m and x % m on a u128, for small m
U128DivMod(x, m) ==
    [quot |-> [i \in 1..Len(x) |-> DivStep(x, m, i) \div m], rem |-> DivStep(x, m, 1) % m]

\* compress: (value * 999.0) as u128, for a value that is not negative
Compress(value) == (value[1] * 999) \div value[2]

\* decompress: value as f32 / 999.0
Decompress(value) == Rat(value, 999)

\* the chunks of policy.chunks(MAX_FIT)
NumChunks(policy) == (Len(policy) + MAX_FIT - 1) \div MAX_FIT
Chunk(policy, i) ==
    SubSeq(policy, i * MAX_FIT + 1, Min2(Len(policy), (i + 1) * MAX_FIT))

\* the inner loop of compress_policy over chunks.iter().rev(): total *= 1000;
\* total += value, from entry j of the chunk down to the first
RECURSIVE PackFrom(_, _, _)
PackFrom(chunk, j, acc) ==
    IF j = 0 THEN acc
    ELSE LET step == U128MulAdd(acc.word, 1000, Compress(chunk[j]))
         IN  PackFrom(chunk, j - 1, [word |-> step.word,
                                     overflow |-> acc.overflow \/ step.overflow])
PackChunk(chunk) == PackFrom(chunk, Len(chunk), [word |-> U128(0), overflow |-> FALSE])

\* compress_policy: result[i] = total for chunk i; result has ARRAY_SIZE
\* words, so a chunk of index ARRAY_SIZE or more is out of bounds; an
\* overflow of total panics in a debug build
CompressPolicy(policy) ==
    LET packed_chunks == [i \in 1..NumChunks(policy) |-> PackChunk(Chunk(policy, i - 1))]
    IN  [panic |-> \/ NumChunks(policy) > ARRAY_SIZE
                   \/ \E i \in 1..NumChunks(policy) : packed_chunks[i].overflow,
         v |-> [i \in 1..ARRAY_SIZE |->
                   IF i <= NumChunks(policy) THEN packed_chunks[i].word ELSE U128(0)]]

\* the inner loop of decompress_policy: MAX_FIT times chunk % 1000,
\* chunk / 1000
RECURSIVE UnpackChunk(_, _)
UnpackChunk(chunk, n) ==
    IF n = 0 THEN <<>>
    ELSE <<Decompress(U128DivMod(chunk, 1000).rem)>>
         \o UnpackChunk(U128DivMod(chunk, 1000).quot, n - 1)

\* decompress_policy
RECURSIVE DecompressFrom(_, _)
DecompressFrom(words, i) ==
    IF i > Len(words) THEN <<>>
    ELSE UnpackChunk(words[i], MAX_FIT) \o DecompressFrom(words, i + 1)
DecompressPolicy(words) == DecompressFrom(words, 1)

(***************************************************************************)
(* SpecCodec: compress_policy and decompress_policy on policies of every   *)
(* length up to MAX_POLICY_LENGTH with entries in [0, 1].                  *)
(***************************************************************************)
MaxPatterns == 3
\* the entries the policies are made of
PolicyValues == <<RZero, Rat(1, 2), ROne, Rat(1, 3), Rat(998, 999), Rat(1, 1000),
                  Rat(2, 3)>>
\* policy number p of length n
PolicyOf(n, p) ==
    [i \in 1..n |-> PolicyValues[((i * p + p - 1) % Len(PolicyValues)) + 1]]
Policies == {PolicyOf(n, p) : n \in 0..MAX_POLICY_LENGTH, p \in 1..MaxPatterns}

CodecInit ==
    /\ codecIn \in Policies
    /\ codecOut = None

CodecIdle ==
    /\ codecIn = <<>>
    /\ codecOut = None

\* decompress_policy(&compress_policy(&policy)); nothing is decompressed
\* when compress_policy panics
CallCodec ==
    /\ ~codecOut.some
    /\ LET compressed == CompressPolicy(codecIn)
       IN  codecOut' = Some([panic |-> compressed.panic,
                             decompressed |-> IF compressed.panic THEN <<>>
                                              ELSE DecompressPolicy(compressed.v)])
    /\ UNCHANGED codecIn

CodecNext ==
    /\ CallCodec
    /\ UNCHANGED <<storeVars, concVars, histVars, rmVars, mccfrVars, distVars, obsVars,
                   mapVars, parVars, fitVars, idxVars, aucVars>>

(***************************************************************************)
(* Blueprint lookup (game_logic/strategy/blueprint.rs).  A blueprint map   *)
(* is a set of entries [key, policy], the key a u64 word; the result of a  *)
(* call is a record [panic, v].                                            *)
(***************************************************************************)
FAIL_CUTOFF == 1000
\* Feature::max_index
FeatureMaxIndex == 200

\* FitFunction variants
FitRange(pos_delta, neg_delta) == [kind |-> "Range", pos |-> pos_delta, neg |-> neg_delta]
Difference == [kind |-> "Difference", pos |-> 0, neg |-> 0]
Exact == [kind |-> "Exact", pos |-> 0, neg |-> 0]

\* a <= b on u64 words, from limb i downwards
RECURSIVE LeqFrom(_, _, _)
LeqFrom(a, b, i) ==
    IF i = 0 THEN TRUE
    ELSE IF a[i] # b[i] THEN a[i] < b[i]
    ELSE LeqFrom(a, b, i - 1)
U64Leq(a, b) == LeqFrom(a, b, Len(a))

\* Evaluator::loss: the zip stops at the shortest of the three
Loss(target, test, functions) ==
    RSum([i \in 1..Min2(Len(functions), Min2(Len(target), Len(test))) |->
             IF functions[i].kind = "Exact"
             THEN (IF test[i] = target[i] THEN RZero ELSE RInt(FAIL_CUTOFF))
             ELSE RInt(Abs(test[i] - target[i]))])[1]

\* a variant of get_min_max whose Difference window starts above the value
GetMinMaxAbove(target_value, function) ==
    CASE function.kind = "Range" ->
            <<target_value, target_value>>
      [] function.kind = "Exact" -> <<target_value, target_value>>
      [] function.kind = "Difference" -> <<(target_value + 1) % 256, FeatureMaxIndex % 256>>
\* Evaluator::get_min_max, with the casts to u8
GetMinMax(target_value, function) ==
    CASE function.kind = "Range" ->
            <<(IF target_value + function.neg > 0 THEN target_value + function.neg ELSE 0) % 256,
              (IF target_value + function.pos < FeatureMaxIndex
               THEN target_value + function.pos ELSE FeatureMaxIndex) % 256>>
      [] function.kind = "Exact" -> <<target_value, target_value>>
      [] function.kind = "Difference" -> <<0, FeatureMaxIndex % 256>>

\* the functions of the round of the history: impl From<usize> for Round and
\* the match of get_best
EvaluatorOf(evaluator, round) ==
    CASE round = 0 -> evaluator.preflop
      [] round = 1 -> evaluator.auction
      [] OTHER -> evaluator.flop_onwards

\* map.range((Included(min), Included(max))) in key order
KeysInRange(map, min, max) ==
    {e.key : e \in {x \in map : U64Leq(min, x.key) /\ U64Leq(x.key, max)}}
LeastKey(keys) == CHOOSE k \in keys : \A other \in keys : U64Leq(k, other)

\* the loop of get_best over the keys of the window in increasing order
RECURSIVE BestOf(_, _, _, _, _)
BestOf(keys, target, functions, min_loss, min_key) ==
    IF keys = {} THEN min_key
    ELSE LET key == LeastKey(keys)
             loss == Loss(target, FromCondensed(key), functions)
         IN  IF loss < min_loss
             THEN BestOf(keys \ {key}, target, functions, loss, Some(key))
             ELSE BestOf(keys \ {key}, target, functions, min_loss, min_key)

\* Evaluator::get_best
GetBest(evaluator, map, target, debug_assertions) ==
    LET history == FromCondensed(target)
        round == history[1]
        functions == EvaluatorOf(evaluator, round)
        n == Min2(Len(history), Len(functions))
        min_values == [i \in 1..n |-> GetMinMax(history[i], functions[i])[1]]
        max_values == [i \in 1..n |-> GetMinMax(history[i], functions[i])[2]]
        min_info_set == IntoCondensed(min_values)
        max_info_set == IntoCondensed(max_values)
        bad == [panic |-> TRUE, v |-> None]
    IN  IF history = <<>> THEN bad
        ELSE IF round > 4 THEN bad
        ELSE IF debug_assertions /\ Len(functions) # Len(history) THEN bad
        ELSE IF debug_assertions /\ (min_info_set.overflow \/ max_info_set.overflow) THEN bad
        ELSE IF ~U64Leq(min_info_set.word, max_info_set.word) THEN bad
        ELSE [panic |-> FALSE,
              v |-> BestOf(KeysInRange(map, min_info_set.word, max_info_set.word),
                           history, functions, FAIL_CUTOFF, None)]

\* the policy stored under a key: self.policies[player_num].get(&info_set)
Lookup(map, key) ==
    IF \E e \in map : e.key = key
    THEN Some((CHOOSE e \in map : e.key = key).policy)
    ELSE None

\* BlueprintStrategy::normalize_policy; the pairs are records [index, p]
NormalizePolicy(condensed_policy, cutoff) ==
    IF ~condensed_policy.some THEN [panic |-> TRUE, v |-> None]
    ELSE LET policy == DecompressPolicy(condensed_policy.v)
             kept == SelectSeq([i \in 1..Len(policy) |-> [index |-> i - 1, p |-> policy[i]]],
                               LAMBDA x : RLess(cutoff, x.p))
             sum == RSum([i \in 1..Len(kept) |-> kept[i].p])
         IN  IF Len(kept) = 0 THEN [panic |-> FALSE, v |-> None]
             ELSE IF RLess(sum, Rat(1, 100000)) THEN [panic |-> FALSE, v |-> None]
             ELSE [panic |-> FALSE,
                   v |-> Some([i \in 1..Len(kept) |->
                                  [index |-> kept[i].index, p |-> RDiv(kept[i].p, sum)]])]

\* BlueprintStrategy::get_best_policy for the player's map and info set
GetBestPolicy(evaluator, map, info_set, cutoff, debug_assertions) ==
    LET best_info_set == GetBest(evaluator, map, info_set, debug_assertions)
    IN  IF best_info_set.panic THEN [panic |-> TRUE, v |-> None]
        ELSE NormalizePolicy(IF best_info_set.v.some
                             THEN Lookup(map, best_info_set.v.v) ELSE None, cutoff)

\* BlueprintStrategy::get_exact_policy for the player's map and info set
GetExactPolicy(map, info_set, cutoff) == NormalizePolicy(Lookup(map, info_set), cutoff)

(***************************************************************************)
(* SpecFit: the lookups on small blueprint maps.                           *)
(***************************************************************************)
MaxKeys == 2
\* the histories the keys and the queries are made of: round, rank, pot, and
\* histories of seven slots
FitHistories ==
    {<<0, 1, 5>>, <<0, 1, 6>>, <<0, 2, 6>>, <<0, 1, 199>>, <<1, 1, 5>>,
     <<0, 0, 0, 0, 0, 0, 0>>, <<0, 0, 0, 0, 0, 0, 1>>,
     <<0, 199, 199, 199, 199, 199, 199>>}
\* the policy saved for a history: all zero for the histories of rank 2
SavedPolicy(h) ==
    IF h[2] = 2 THEN Zeros(3) ELSE PolicyOf(3, (h[Len(h)] % MaxPatterns) + 1)
\* load_from_json: policy.insert(info_set, compress_policy(&policy))
BlueprintOf(histories) ==
    {[key |-> IntoCondensed(h).word, policy |-> CompressPolicy(SavedPolicy(h)).v] :
        h \in histories}
FitMaps ==
    {BlueprintOf(hs) : hs \in {x \in SUBSET FitHistories : Cardinality(x) <= MaxKeys}}
FitEvaluators ==
    {[preflop |-> <<Exact, Exact, Difference>>, auction |-> <<>>, flop_onwards |-> <<>>],
     [preflop |-> <<Exact, FitRange(1, -1), Difference>>,
      auction |-> <<Exact, Exact, Exact>>, flop_onwards |-> <<>>],
     [preflop |-> <<Exact, Difference, Difference, Difference, Difference, Difference,
                    Difference>>,
      auction |-> <<>>, flop_onwards |-> <<>>]}
\* the values tried for BLUEPRINT_CUTOFF
Cutoffs == {Rat(1, 100), Rat(1, 2)}

FitInit ==
    /\ fitIn \in [map : FitMaps, evaluator : FitEvaluators, cutoff : Cutoffs,
                  debug_assertions : BOOLEAN,
                  info_set : {IntoCondensed(h).word : h \in FitHistories}]
    /\ fitOut = None

FitIdle ==
    /\ fitIn = [map |-> {}, evaluator |-> [preflop |-> <<>>, auction |-> <<>>,
                                           flop_onwards |-> <<>>],
                cutoff |-> Rat(1, 100), debug_assertions |-> TRUE, info_set |-> U64(1)]
    /\ fitOut = None

CallLookup ==
    /\ ~fitOut.some
    /\ fitOut' = Some([best |-> GetBest(fitIn.evaluator, fitIn.map, fitIn.info_set,
                                        fitIn.debug_assertions),
                       best_policy |-> GetBestPolicy(fitIn.evaluator, fitIn.map,
                                                     fitIn.info_set, fitIn.cutoff,
                                                     fitIn.debug_assertions),
                       exact_policy |-> GetExactPolicy(fitIn.map, fitIn.info_set,
                                                       fitIn.cutoff)])
    /\ UNCHANGED fitIn

FitNext ==
    /\ CallLookup
    /\ UNCHANGED <<storeVars, concVars, histVars, rmVars, mccfrVars, distVars, obsVars,
                   mapVars, parVars, codecVars, idxVars, aucVars>>

(***************************************************************************)
(* SpecIdx: index() and from() of AuctionPokerAction (implementations/     *)
(* auction.rs) on one player action: Fold, Call, Check, a raise or a bid   *)
(* at either end of every bucket of index().                               *)
(***************************************************************************)
\* the bounds of the Raise arms and of the Bid arms of index()
RaiseBounds ==
    {300, 500, 600, 750, 1000, 1250, 1500, 1750, 2000, 3000, 4000, 5000, 10000,
     20000, 30000, 40000, 50000, 75000}
BidBounds ==
    {0, 10, 20, 30, 40, 50, 60, 70, 80, 90, 110, 133, 150, 186, 195, 230, 356}
PlayerActions ==
    {Fold, Call, Check}
        \cup {Raise(size) : size \in {0, 1000000} \cup RaiseBounds \cup {b + 1 : b \in RaiseBounds}}
        \cup {Bid(x) : x \in {400} \cup BidBounds \cup {b + 1 : b \in BidBounds}}

IdxInit ==
    /\ idxIn \in PlayerActions
    /\ idxOut = None

IdxIdle ==
    /\ idxIn = Fold
    /\ idxOut = None

\* AuctionPokerAction::from(action.index())
CallFromIndex ==
    /\ ~idxOut.some
    /\ idxOut' = Some([index |-> idxIn.index, from |-> AuctionFrom(idxIn.index)])
    /\ UNCHANGED idxIn

IdxNext ==
    /\ CallFromIndex
    /\ UNCHANGED <<storeVars, concVars, histVars, rmVars, mccfrVars, distVars, obsVars, mapVars, parVars, codecVars, fitVars, aucVars>>

(***************************************************************************)
(* SpecAuction: the auction-poker state machine (implementations/          *)
(* auction.rs), played from State::new under every choice of the offered   *)
(* actions.  Stacks and the aggression limit are scaled down.  The deck is *)
(* not kept: a deal is one chance action whatever the card, and at the     *)
(* showdown the two ranks compare in any of the three ways.  Players are   *)
(* 0 and 1.  Utilities are whole chips, kept as integers.  An unsigned     *)
(* subtraction below zero or a failed assertion ends the play in a Panic   *)
(* node.                                                                   *)
(***************************************************************************)
BIG_BLIND == 2
LITTLE_BLIND == 1
\* STACK_SIZE, scaled
STACK_SIZE == 8
\* AGGRESSION_LIMIT, scaled
AGGRESSION_LIMIT == 2

\* player_num ^ 1
Opponent(player_num) == 1 - player_num

\* (n as f32 / d as f32).round() for n >= 0: halves round away from zero
RoundDiv(n, d) == (2 * n + d) \div (2 * d)
\* RelativeSize::Amount(a).to_percent(pot)
ToPercent(a, pot) == RoundDiv(a * 1000, pot)
\* RelativeSize::DeciPercent(p).to_amount(pot)
ToAmount(p, pot) == RoundDiv(pot * p, 1000)

\* the actions that are no player's: deals and markers, index 100
NonPlayerAction(kind, x) == [kind |-> kind, x |-> x, index |-> 100]

\* ActivePlayer::Chance, Marker, Player, Terminal
AucChance(action) ==
    [kind |-> "Chance", player |-> 0, actions |-> <<action>>, utilities |-> <<>>]
AucMarker(action) ==
    [kind |-> "Marker", player |-> 0, actions |-> <<action>>, utilities |-> <<>>]
AucPlayer(player_num, actions) ==
    [kind |-> "Player", player |-> player_num, actions |-> actions, utilities |-> <<>>]
AucTerminal(utilities) ==
    [kind |-> "Terminal", player |-> 0, actions |-> <<>>, utilities |-> utilities]
\* a panic inside update
AucPanic ==
    [kind |-> "Panic", player |-> 0, actions |-> <<>>, utilities |-> <<>>]

\* Hand::needs_hole_cards
HandNeedsHoleCards(s, player_num) == s.hand_size[player_num] > s.cards[player_num]
\* AuctionPokerState::needs_hole_cards
NeedsHoleCards(s) == HandNeedsHoleCards(s, 0) \/ HandNeedsHoleCards(s, 1)

\* AuctionPokerState::hole_card_dealer
HoleCardDealer(s) ==
    AucChance(NonPlayerAction("DealHole", IF HandNeedsHoleCards(s, 0) THEN 0 ELSE 1))
\* AuctionPokerState::initial_node
InitialNode == AucChance(NonPlayerAction("DealHole", 0))
\* AuctionPokerState::deal
Deal == AucChance(NonPlayerAction("DealCommunity", 0))

\* AuctionPokerState::folded
Folded(s, player_num) ==
    LET delta == STACK_SIZE - s.stacks[player_num]
    IN  IF delta < 0 THEN AucPanic
        ELSE IF player_num = 0 THEN AucTerminal(<<-delta, delta>>)
        ELSE AucTerminal(<<delta, -delta>>)

\* the ways player0_rank.cmp(&player1_rank) can come out
Orderings == {"Greater", "Less", "Equal"}

\* AuctionPokerState::showdown
Showdown(s, ordering) ==
    LET contribution0 == STACK_SIZE - s.stacks[0]
        contribution1 == STACK_SIZE - s.stacks[1]
        extra_chip == s.pot % 2
        half_pot == (s.pot - extra_chip) \div 2
    IN  IF \/ \E p \in 0..1 : s.cards[p] + s.community_cards \notin {7, 8}
           \/ contribution0 < 0
           \/ contribution1 < 0
        THEN AucPanic
        ELSE CASE ordering = "Greater" -> AucTerminal(<<contribution1, -contribution1>>)
               [] ordering = "Less" -> AucTerminal(<<-contribution0, contribution0>>)
               [] ordering = "Equal" ->
                     AucTerminal(<<contribution0 - half_pot,
                                   contribution1 - half_pot + extra_chip>>)

\* AuctionPokerState::next_dealer
NextDealer(s, ordering) ==
    CASE s.community_cards \in {0, 3, 4} -> Deal
      [] s.community_cards = 5 -> Showdown(s, ordering)
      [] OTHER -> AucPanic

\* the raises to the amounts from..to, as deci-percent of the pot
RECURSIVE RaisesTo(_, _, _)
RaisesTo(from, to, pot) ==
    IF from > to THEN <<>>
    ELSE <<Raise(ToPercent(from, pot))>> \o RaisesTo(from + 1, to, pot)

\* a variant of betting_round that goes on offering raises at the limit
BettingRoundNoLimit(s, player_num) ==
    LET other == Opponent(player_num)
        min_raise == IF s.raise.some THEN s.raise.v + s.pips[other]
                     ELSE BIG_BLIND + s.pips[other]
        max_raise == Min2(s.stacks[player_num] + s.pips[player_num],
                          s.stacks[other] + s.pips[other])
        raises == RaisesTo(min_raise, max_raise, s.pot)
        all_in == IF /\ s.stacks[player_num] > 0
                     /\ raises = <<>>
                     /\ s.stacks[player_num] <= s.stacks[other]
                  THEN <<Raise(ToPercent(s.stacks[player_num] + s.pips[player_num], s.pot))>>
                  ELSE <<>>
        rest == IF s.pips[player_num] = s.pips[other] THEN <<Check>> ELSE <<Call, Fold>>
    IN  AucPlayer(player_num, raises \o all_in \o rest)
\* AuctionPokerState::betting_round
BettingRound(s, player_num) ==
    LET other == Opponent(player_num)
        min_raise == IF s.raise.some THEN s.raise.v + s.pips[other]
                     ELSE BIG_BLIND + s.pips[other]
        max_raise == Min2(s.stacks[player_num] + s.pips[player_num],
                          s.stacks[other] + s.pips[other])
        raises == RaisesTo(min_raise, max_raise, s.pot)
        all_in == IF /\ s.stacks[player_num] > 0
                     /\ raises = <<>>
                     /\ s.stacks[player_num] <= s.stacks[other]
                  THEN <<Raise(ToPercent(s.stacks[player_num] + s.pips[player_num], s.pot))>>
                  ELSE <<>>
        rest == IF s.pips[player_num] = s.pips[other] THEN <<Check>> ELSE <<Call, Fold>>
    IN  AucPlayer(player_num,
                  IF s.aggression = AGGRESSION_LIMIT THEN rest
                  ELSE raises \o all_in \o rest)

\* the bids Amount(0)..Amount(chips)
BidsTo(chips) == [x \in 1..(chips + 1) |-> Bid(x - 1)]

\* a variant of auction_continue that asks player 0 for the first bid
AuctionContinuePlayer0First(s) ==
    CASE ~s.bids[0].some /\ ~s.bids[1].some -> AucPlayer(0, BidsTo(s.stacks[0]))
      [] s.bids[0].some /\ ~s.bids[1].some -> AucPlayer(1, BidsTo(s.stacks[1]))
      [] s.bids[0].some /\ s.bids[1].some ->
            AucMarker(NonPlayerAction("Auction",
                CASE s.bids[0].v > s.bids[1].v -> 0
                  [] s.bids[1].v > s.bids[0].v -> 1
                  [] OTHER -> 2))
      [] OTHER -> AucPanic
\* AuctionPokerState::auction_continue
AuctionContinue(s) ==
    CASE ~s.bids[0].some /\ ~s.bids[1].some -> AucPlayer(1, BidsTo(s.stacks[0]))
      [] ~s.bids[0].some /\ s.bids[1].some -> AucPlayer(0, BidsTo(s.stacks[1]))
      [] s.bids[0].some /\ s.bids[1].some ->
            AucMarker(NonPlayerAction("Auction",
                CASE s.bids[0].v > s.bids[1].v -> 0
                  [] s.bids[1].v > s.bids[0].v -> 1
                  [] OTHER -> 2))
      [] OTHER -> AucPanic

\* State::new
AucNew ==
    [bids |-> [p \in 0..1 |-> None],
     hand_size |-> [p \in 0..1 |-> 2],
     cards |-> [p \in 0..1 |-> 0],
     community_cards |-> 0,
     pot |-> LITTLE_BLIND + BIG_BLIND,
     pips |-> (0 :> 1 @@ 1 :> 2),
     stacks |-> (0 :> STACK_SIZE - LITTLE_BLIND @@ 1 :> STACK_SIZE - BIG_BLIND),
     raise |-> Some(2),
     active_player |-> InitialNode,
     aggression |-> 0]

\* debug_assert_eq!(stacks[0] + stacks[1] + pot, 2 * STACK_SIZE) and the
\* checked unsigned arithmetic: the state, or the state stopped at a panic
SanityChecked(s) ==
    IF /\ s.stacks[0] >= 0
       /\ s.stacks[1] >= 0
       /\ s.stacks[0] + s.stacks[1] + s.pot = 2 * STACK_SIZE
    THEN s
    ELSE [s EXCEPT !.active_player = AucPanic]

\* a variant of new_pot_after in which a tied auction adds one bid only
NewPotAfterOneBid(s, action) ==
    CASE action.kind = "Call" ->
            LET max_pip == IF s.pips[0] > s.pips[1] THEN s.pips[0] ELSE s.pips[1]
            IN  s.pot + (max_pip - s.pips[0]) + (max_pip - s.pips[1])
      [] action.kind = "Fold" -> s.pot
      [] action.kind = "Raise" -> s.pot + (action.x - s.pips[s.active_player.player])
      [] action.kind = "Auction" ->
            IF action.x = 2 THEN s.pot + s.bids[0].v
            ELSE s.pot + s.bids[Opponent(action.x)].v
\* AuctionPokerState::new_pot_after; a raise carries Amount(x), the
\* auction marker carries the winner, 2 for a tie
NewPotAfter(s, action) ==
    CASE action.kind = "Call" ->
            LET max_pip == IF s.pips[0] > s.pips[1] THEN s.pips[0] ELSE s.pips[1]
            IN  s.pot + (max_pip - s.pips[0]) + (max_pip - s.pips[1])
      [] action.kind = "Fold" -> s.pot
      [] action.kind = "Raise" -> s.pot + (action.x - s.pips[s.active_player.player])
      [] action.kind = "Auction" ->
            IF action.x = 2 THEN s.pot + 2 * s.bids[0].v
            ELSE s.pot + s.bids[Opponent(action.x)].v

\* a variant of the Check arm in which a check never ends the round
AfterCheckPassesOn(s, player_num) ==
    AucMarker(NonPlayerAction("PlayerActionEnd", player_num))
\* State::update, the node after a Check: the first to act in the round
\* (player 0 before the flop, player 1 after it) passes the action on, the
\* other ends the round
AfterCheck(s, player_num) ==
    IF s.community_cards \notin {0, 3, 4, 5} THEN AucPanic
    ELSE IF (s.community_cards = 0) = (player_num = 0)
    THEN AucMarker(NonPlayerAction("PlayerActionEnd", player_num))
    ELSE AucMarker(NonPlayerAction("BettingRoundEnd", 0))

\* State::update, the arms of the player actions
UpdatePlayerAction(s, action) ==
    LET player_num == s.active_player.player
    IN  CASE action.kind = "Fold" ->
                [s EXCEPT !.active_player = Folded(s, player_num)]
          [] action.kind = "Call" ->
                LET max_pip == IF s.pips[0] > s.pips[1] THEN s.pips[0] ELSE s.pips[1]
                IN  SanityChecked(
                        [s EXCEPT !.stacks = [p \in 0..1 |-> s.stacks[p] - (max_pip - s.pips[p])],
                                  !.pot = NewPotAfter(s, action),
                                  !.pips = [p \in 0..1 |-> 0],
                                  !.raise = None,
                                  !.active_player =
                                      AucMarker(NonPlayerAction("BettingRoundEnd", 0))])
          [] action.kind = "Check" ->
                SanityChecked([s EXCEPT !.active_player = AfterCheck(s, player_num)])
          [] action.kind = "Raise" ->
                LET amount == ToAmount(action.x, s.pot)
                    cost == amount - s.pips[player_num]
                IN  IF cost < 0 THEN [s EXCEPT !.active_player = AucPanic]
                    ELSE SanityChecked(
                        [s EXCEPT !.pot = NewPotAfter(s, [action EXCEPT !.x = amount]),
                                  !.pips[player_num] = @ + cost,
                                  !.stacks[player_num] = @ - cost,
                                  !.raise = IF s.pips[Opponent(player_num)] > 0
                                            THEN Some(cost) ELSE None,
                                  !.aggression = @ + 1,
                                  !.active_player =
                                      AucMarker(NonPlayerAction("PlayerActionEnd", player_num))])
          [] action.kind = "Bid" ->
                LET bid == [s EXCEPT !.bids[player_num] = Some(action.x)]
                IN  [bid EXCEPT !.active_player = AuctionContinue(bid)]

\* State::update, the arms of the deals and the markers
UpdateNonPlayerAction(s, action, ordering) ==
    CASE action.kind = "DealHole" ->
            LET dealt == [s EXCEPT !.cards[action.x] = @ + 1]
            IN  [dealt EXCEPT !.active_player =
                    IF NeedsHoleCards(dealt) THEN HoleCardDealer(dealt)
                    ELSE AucMarker(NonPlayerAction("BettingRoundStart", 0))]
      [] action.kind = "DealCommunity" ->
            LET street == s.community_cards + 1
            IN  [s EXCEPT !.community_cards = street,
                          !.active_player =
                              CASE street <= 2 -> Deal
                                [] street = 3 /\ ~s.bids[1].some ->
                                      AucMarker(NonPlayerAction("AuctionStart", 0))
                                [] street \in 3..5 ->
                                      AucMarker(NonPlayerAction("BettingRoundStart", 0))
                                [] OTHER -> AucPanic]
      [] action.kind = "Auction" ->
            LET paid == IF action.x = 2
                        THEN [s EXCEPT !.hand_size = [p \in 0..1 |-> 3],
                                       !.stacks = [p \in 0..1 |-> s.stacks[p] - s.bids[0].v],
                                       !.pot = NewPotAfter(s, action)]
                        ELSE [s EXCEPT !.hand_size[action.x] = 3,
                                       !.stacks[action.x] = @ - s.bids[Opponent(action.x)].v,
                                       !.pot = NewPotAfter(s, action)]
            IN  IF \E p \in 0..1 : (action.x \in {p, 2}) /\ s.hand_size[p] # 2
                THEN [s EXCEPT !.active_player = AucPanic]
                ELSE SanityChecked([paid EXCEPT !.active_player = HoleCardDealer(paid)])
      [] action.kind = "BettingRoundStart" ->
            LET reset == [s EXCEPT !.aggression = 0]
            IN  [reset EXCEPT !.active_player =
                    IF s.community_cards \notin {0, 3, 4, 5} THEN AucPanic
                    ELSE IF s.community_cards = 0 THEN BettingRound(reset, 0)
                    ELSE BettingRound(reset, 1)]
      [] action.kind = "PlayerActionEnd" ->
            [s EXCEPT !.active_player = BettingRound(s, Opponent(action.x))]
      [] action.kind = "BettingRoundEnd" ->
            LET reset == [s EXCEPT !.raise = None, !.pips = [p \in 0..1 |-> 0]]
            IN  SanityChecked([reset EXCEPT !.active_player = NextDealer(reset, ordering)])
      [] action.kind = "AuctionStart" ->
            [s EXCEPT !.active_player = AuctionContinue(s)]

\* the actions the active player offers
Offered(s) == {s.active_player.actions[i] : i \in 1..Len(s.active_player.actions)}

AucInit ==
    /\ auc = AucNew
    /\ aucDepth = 0

AucIdle == AucInit

\* a player plays one of the offered actions of the kind
PlayerPlays(kind) ==
    /\ auc.active_player.kind = "Player"
    /\ \E action \in Offered(auc) :
          /\ action.kind = kind
          /\ auc' = UpdatePlayerAction(auc, action)
    /\ aucDepth' = aucDepth + 1

\* chance deals, or the marker of the kind is played
ChanceOrMarkerPlays(kind) ==
    /\ auc.active_player.kind \in {"Chance", "Marker"}
    /\ \E action \in Offered(auc), ordering \in Orderings :
          /\ action.kind = kind
          /\ auc' = UpdateNonPlayerAction(auc, action, ordering)
    /\ aucDepth' = aucDepth + 1

AucFold == PlayerPlays("Fold")
AucCall == PlayerPlays("Call")
AucCheck == PlayerPlays("Check")
AucRaise == PlayerPlays("Raise")
AucBid == PlayerPlays("Bid")
AucDealHole == ChanceOrMarkerPlays("DealHole")
AucDealCommunity == ChanceOrMarkerPlays("DealCommunity")
AucAuction == ChanceOrMarkerPlays("Auction")
AucBettingRoundStart == ChanceOrMarkerPlays("BettingRoundStart")
AucPlayerActionEnd == ChanceOrMarkerPlays("PlayerActionEnd")
AucBettingRoundEnd == ChanceOrMarkerPlays("BettingRoundEnd")
AucAuctionStart == ChanceOrMarkerPlays("AuctionStart")

AucNext ==
    /\ \/ AucFold
       \/ AucCall
       \/ AucCheck
       \/ AucRaise
       \/ AucBid
       \/ AucDealHole
       \/ AucDealCommunity
       \/ AucAuction
       \/ AucBettingRoundStart
       \/ AucPlayerActionEnd
       \/ AucBettingRoundEnd
       \/ AucAuctionStart
    /\ UNCHANGED <<storeVars, concVars, histVars, rmVars, mccfrVars, distVars, obsVars, mapVars, parVars, codecVars, fitVars, idxVars>>

\* The locals of one call of run_averaging_iteration.  entry_game records
\* the worker's game when the call reached its updated-player node.
Frame(updated_player, depth, q) ==
    [pc |-> "enter", updated_player |-> updated_player, depth |-> depth, q |-> q,
     history |-> U64(0), mask |-> <<>>, mapped_actions |-> <<>>, regrets |-> <<>>,
     sampling_values |-> <<>>, index |-> 0, regret_updates |-> <<>>,
     sampled |-> <<>>, temp_game |-> GameNew, entry_game |-> GameNew]

Top == stack[Len(stack)]
SetTop(f) == [stack EXCEPT ![Len(stack)] = f]
Pop == SubSeq(stack, 1, Len(stack) - 1)
Node == ActivePlayer(game.state)
Entering == stack # <<>> /\ Top.pc = "enter"
NoNode == [kind |-> "none"]

MccfrInit ==
    /\ game = GameNew
    /\ strategies = [p \in Players |-> EmptyStore]
    /\ iterations = 0
    /\ nodes_traversed = 0
    /\ exploration = Rat(3, 5)
    /\ driver = [pc |-> "idle", n |-> 0, i |-> 0, player |-> 0, start |-> 0]
    /\ stack = <<>>
    /\ ret = None
    /\ trace = <<>>
    /\ lastNode = NoNode

(***************************************************************************)
(* run_iterations                                                          *)
(***************************************************************************)
\* entry: self.exploration = epsilon, then the loop starts
RunIterations(n, epsilon) ==
    /\ driver.pc \in {"idle", "done"}
    /\ iterations + n <= MaxIterations
    /\ exploration' = epsilon
    /\ driver' = [pc |-> "loop", n |-> n, i |-> 0, player |-> 0, start |-> iterations]
    /\ trace' = <<>>
    /\ lastNode' = NoNode
    /\ UNCHANGED <<game, strategies, iterations, nodes_traversed, stack, ret>>

\* a variant of the inner loop that visits the players last to first
PlayerAtReversed(j) == NUM_REGULAR_PLAYERS - 1 - j
\* for player in 0..num_regular_players(): the j-th player visited
PlayerAt(j) == j

\* self.game = Game::new(); self.run_averaging_iteration(rng, player, 0, 1.0)
BeginTraversal ==
    /\ driver.pc = "loop"
    /\ driver.i < driver.n
    /\ driver.player < NUM_REGULAR_PLAYERS
    /\ game' = GameNew
    /\ stack' = <<Frame(PlayerAt(driver.player), 0, ROne)>>
    /\ driver' = [driver EXCEPT !.pc = "call"]
    /\ trace' = Append(trace, [player |-> PlayerAt(driver.player), depth |-> 0,
                               q |-> ROne, game |-> game'])
    /\ lastNode' = NoNode
    /\ UNCHANGED <<strategies, iterations, nodes_traversed, exploration, ret>>

\* the traversal returned; its value is dropped
EndTraversal ==
    /\ driver.pc = "call"
    /\ stack = <<>>
    /\ ret.some
    /\ ret' = None
    /\ driver' = [driver EXCEPT !.pc = "loop", !.player = @ + 1]
    /\ lastNode' = NoNode
    /\ UNCHANGED <<game, strategies, iterations, nodes_traversed, exploration, stack, trace>>

\* self.iterations += 1 at the end of the outer loop's body
EndIteration ==
    /\ driver.pc = "loop"
    /\ driver.i < driver.n
    /\ driver.player = NUM_REGULAR_PLAYERS
    /\ iterations' = iterations + 1
    /\ driver' = [driver EXCEPT !.i = @ + 1, !.player = 0]
    /\ lastNode' = NoNode
    /\ UNCHANGED <<game, strategies, nodes_traversed, exploration, stack, ret, trace>>

\* the outer loop is over: run_iterations returns
ReturnFromRun ==
    /\ driver.pc = "loop"
    /\ driver.i = driver.n
    /\ driver' = [driver EXCEPT !.pc = "done"]
    /\ lastNode' = NoNode
    /\ UNCHANGED <<game, strategies, iterations, nodes_traversed, exploration, stack, ret, trace>>

(***************************************************************************)
(* run_averaging_iteration, one step per node visit, per turn of the       *)
(* sampling loop and per return.                                           *)
(***************************************************************************)
\* ActivePlayer::Terminal(utilities) => utilities[updated_player] / q
VisitTerminal ==
    /\ Entering
    /\ Node.kind = "Terminal"
    /\ nodes_traversed' = nodes_traversed + 1
    /\ ret' = Some(RDiv(Node.utilities[Top.updated_player + 1], Top.q))
    /\ stack' = Pop
    /\ lastNode' = [kind |-> "Terminal"]
    /\ UNCHANGED <<game, strategies, iterations, exploration, driver, trace>>

\* ActivePlayer::Chance(actions): sample, map, play, recurse
VisitChance ==
    /\ Entering
    /\ Node.kind = "Chance"
    /\ \E default_index \in 1..Len(Node.actions) :
          LET mapped == MapAndIndex(Node.actions[default_index], Top.depth, default_index - 1)
          IN  /\ game' = Play(game, mapped[1])
              /\ stack' = Append(SetTop([Top EXCEPT !.pc = "tail"]),
                                 Frame(Top.updated_player, Top.depth + 1, Top.q))
              /\ lastNode' = [kind |-> "Chance", pre |-> game, action |-> mapped[1]]
    /\ nodes_traversed' = nodes_traversed + 1
    /\ UNCHANGED <<strategies, iterations, exploration, driver, ret, trace>>

\* a variant of the Marker arm that halves q
MarkerQScaled(q) == RMul(q, Rat(1, 2))
\* the q the Marker arm passes to its recursive call
MarkerQ(q) == q

\* ActivePlayer::Marker(action): play it, recurse
VisitMarker ==
    /\ Entering
    /\ Node.kind = "Marker"
    /\ game' = Play(game, Node.action)
    /\ stack' = Append(SetTop([Top EXCEPT !.pc = "tail"]),
                       Frame(Top.updated_player, Top.depth + 1, MarkerQ(Top.q)))
    /\ lastNode' = [kind |-> "Marker", pre |-> game, action |-> Node.action]
    /\ UNCHANGED <<strategies, iterations, nodes_traversed, exploration, driver, ret, trace>>

\* ActivePlayer::Player(player_num, actions) with player_num != updated_player:
\* add regrets / q to the player's cumulative strategy, sample one action
\* from the masked distribution, play it, recurse
VisitOpponent ==
    /\ Entering
    /\ Node.kind = "Player"
    /\ Node.player # Top.updated_player
    /\ LET actions == MapActions(Node.actions, Top.depth)
           mask == MaskOf(actions)
           mapped_actions == MappedActionsOf(actions)
           history == GetInformationSet(game, Node.player)
           strategy == strategies[Node.player]
           regrets == [i \in 1..Len(mask) |->
                          RDiv(RegretDist(strategy, history, mask)[i], Top.q)]
           distribution == WithMask(NewNormalized(regrets), mask)
       IN  /\ strategies' = [strategies EXCEPT
                                ![Node.player] = StoreUpdate(@, history, None, Some(regrets))]
           /\ \E index \in Support(distribution) :
                 /\ game' = Play(game, mapped_actions[index].v)
                 /\ lastNode' = [kind |-> "Opponent", player |-> Node.player, key |-> history,
                                 mask |-> mask,
                                 delta |-> regrets, index |-> index,
                                 pre |-> game, action |-> mapped_actions[index].v]
           /\ stack' = Append(SetTop([Top EXCEPT !.pc = "tail"]),
                              Frame(Top.updated_player, Top.depth + 1, Top.q))
    /\ nodes_traversed' = nodes_traversed + 1
    /\ UNCHANGED <<iterations, exploration, driver, ret, trace>>

\* a Chance, Marker or opponent arm returns what its recursive call returned
TailReturn ==
    /\ stack # <<>>
    /\ Top.pc = "tail"
    /\ ret.some
    /\ stack' = Pop
    /\ lastNode' = NoNode
    /\ UNCHANGED <<game, strategies, iterations, nodes_traversed, exploration,
                   driver, ret, trace>>

\* ActivePlayer::Player(player_num, actions) with player_num == updated_player,
\* up to the sampling loop: mask, regret distribution, the policy entry made
\* if absent, the sampling values
VisitUpdated ==
    /\ Entering
    /\ Node.kind = "Player"
    /\ Node.player = Top.updated_player
    /\ LET actions == MapActions(Node.actions, Top.depth)
           mask == MaskOf(actions)
           history == GetInformationSet(game, Node.player)
           strategy == strategies[Node.player]
           ensured == IF Policy(strategy, history).some THEN strategy
                      ELSE StoreUpdate(strategy, history, None, Some(Zeros(Len(mask))))
           policy == Policy(ensured, history).v
       IN  /\ strategies' = [strategies EXCEPT ![Node.player] = ensured]
           /\ stack' = SetTop([Top EXCEPT
                 !.pc = "loop",
                 !.entry_game = game,
                 !.history = history,
                 !.mask = mask,
                 !.mapped_actions = MappedActionsOf(actions),
                 !.regrets = RegretDist(strategy, history, mask),
                 !.sampling_values = AverageSampling(policy, exploration, Bonus, Threshold),
                 !.index = 1])
           /\ lastNode' = [kind |-> "Updated", key |-> history, mask |-> mask]
    /\ nodes_traversed' = nodes_traversed + 1
    /\ UNCHANGED <<game, iterations, exploration, driver, ret, trace>>

InLoop == stack # <<>> /\ Top.pc = "loop" /\ Top.index <= Len(Top.sampling_values)

\* a turn of the loop for an index outside the mask, or for a legal action
\* whose draw will_sample is not below its sampling value (some draw in
\* [0, 1) is, exactly when the value is below 1)
SkipAction ==
    /\ InLoop
    /\ \/ ~Top.mask[Top.index]
       \/ RLess(Top.sampling_values[Top.index], ROne)
    /\ stack' = SetTop([Top EXCEPT !.regret_updates = Append(@, RZero),
                                   !.sampled = Append(@, FALSE),
                                   !.index = @ + 1])
    /\ lastNode' = [kind |-> "Skip"]
    /\ UNCHANGED <<game, strategies, iterations, nodes_traversed, exploration,
                   driver, ret, trace>>

\* a turn of the loop for a legal action whose draw is below its sampling
\* value: keep a clone of the game, play the action, recurse with
\* q * min(probability, 1)
SampleAction ==
    /\ InLoop
    /\ Top.mask[Top.index]
    /\ RLess(RZero, Top.sampling_values[Top.index])
    /\ game' = Play(game, Top.mapped_actions[Top.index].v)
    /\ stack' = Append(SetTop([Top EXCEPT !.pc = "wait", !.temp_game = game]),
                       Frame(Top.updated_player, Top.depth + 1,
                             RMul(Top.q, RMin(Top.sampling_values[Top.index], ROne))))
    /\ lastNode' = [kind |-> "Sample", pre |-> game,
                    action |-> Top.mapped_actions[Top.index].v]
    /\ UNCHANGED <<strategies, iterations, nodes_traversed, exploration, driver, ret, trace>>

\* a variant of the restore that keeps the game the recursive call left
KeepCurrent(temp_game, current) == current
\* self.game = temp_game
Restore(temp_game, current) == temp_game

\* the recursive call of the loop returned: self.game = temp_game;
\* regret_updates.push(value)
ResumeLoop ==
    /\ stack # <<>>
    /\ Top.pc = "wait"
    /\ ret.some
    /\ game' = Restore(Top.temp_game, game)
    /\ stack' = SetTop([Top EXCEPT !.pc = "loop",
                                   !.regret_updates = Append(@, ret.v),
                                   !.sampled = Append(@, TRUE),
                                   !.index = @ + 1,
                                   !.temp_game = GameNew])
    /\ ret' = None
    /\ lastNode' = NoNode
    /\ UNCHANGED <<strategies, iterations, nodes_traversed, exploration, driver, trace>>

\* after the loop: the baseline, the regret update of the store, the return
UpdateRegrets ==
    /\ stack # <<>>
    /\ Top.pc = "loop"
    /\ Top.index > Len(Top.sampling_values)
    /\ LET p == Top.updated_player
           counter_factual_estimation == Baseline(Top.regret_updates, Top.regrets)
           dropped_non_actions == DroppedNonActions(Top.regret_updates, Top.regrets, Top.mask)
       IN  /\ strategies' = [strategies EXCEPT
                  ![p] = StoreUpdate(@, Top.history, Some(dropped_non_actions), None)]
           /\ ret' = Some(counter_factual_estimation)
           /\ lastNode' = [kind |-> "Update", player |-> p, key |-> Top.history,
                           mask |-> Top.mask, sampled |-> Top.sampled,
                           regret_dist |-> Top.regrets,
                           values |-> Top.regret_updates,
                           baseline |-> counter_factual_estimation,
                           delta |-> dropped_non_actions,
                           before |-> Regrets(strategies[p], Top.history),
                           after |-> Regrets(strategies'[p], Top.history)]
    /\ stack' = Pop
    /\ UNCHANGED <<game, iterations, nodes_traversed, exploration, driver, trace>>

MccfrNext ==
    /\ \/ \E n \in 0..MaxIterations, epsilon \in Epsilons : RunIterations(n, epsilon)
       \/ BeginTraversal
       \/ EndTraversal
       \/ EndIteration
       \/ ReturnFromRun
       \/ VisitTerminal
       \/ VisitChance
       \/ VisitMarker
       \/ VisitOpponent
       \/ TailReturn
       \/ VisitUpdated
       \/ SkipAction
       \/ SampleAction
       \/ ResumeLoop
       \/ UpdateRegrets
    /\ UNCHANGED <<storeVars, concVars, histVars, rmVars, distVars, obsVars, mapVars, parVars, codecVars, fitVars, idxVars, aucVars>>

(***************************************************************************)
(* The specifications.  Each one drives its own part of the state and      *)
(* leaves the rest at its initial value.                                   *)
(***************************************************************************)
RMIdle ==
    /\ rmIn = [reg |-> Zeros(MaxIndex), mask |-> [i \in 1..MaxIndex |-> TRUE]]
    /\ rmOut = None

Init == StoreInit /\ ConcInit /\ HistInit /\ RMIdle /\ MccfrInit /\ MaskIdle /\ ObsInit /\ MapIdle /\ ParIdle /\ CodecIdle /\ FitIdle /\ IdxIdle /\ AucIdle
InitRM == StoreInit /\ ConcInit /\ HistInit /\ RMInit /\ MccfrInit /\ MaskIdle /\ ObsInit /\ MapIdle /\ ParIdle /\ CodecIdle /\ FitIdle /\ IdxIdle /\ AucIdle
InitMask == StoreInit /\ ConcInit /\ HistInit /\ RMIdle /\ MccfrInit /\ MaskInit /\ ObsInit /\ MapIdle /\ ParIdle /\ CodecIdle /\ FitIdle /\ IdxIdle /\ AucIdle
InitMap == StoreInit /\ ConcInit /\ HistInit /\ RMIdle /\ MccfrInit /\ MaskIdle /\ ObsInit /\ MapInit /\ ParIdle /\ CodecIdle /\ FitIdle /\ IdxIdle /\ AucIdle
InitPar == StoreInit /\ ConcInit /\ HistInit /\ RMIdle /\ MccfrInit /\ MaskIdle /\ ObsInit /\ MapIdle /\ ParInit /\ CodecIdle /\ FitIdle /\ IdxIdle /\ AucIdle
InitCodec == StoreInit /\ ConcInit /\ HistInit /\ RMIdle /\ MccfrInit /\ MaskIdle /\ ObsInit /\ MapIdle /\ ParIdle /\ CodecInit /\ FitIdle /\ IdxIdle /\ AucIdle
InitFit == StoreInit /\ ConcInit /\ HistInit /\ RMIdle /\ MccfrInit /\ MaskIdle /\ ObsInit /\ MapIdle /\ ParIdle /\ CodecIdle /\ FitInit /\ IdxIdle /\ AucIdle
InitIdx == StoreInit /\ ConcInit /\ HistInit /\ RMIdle /\ MccfrInit /\ MaskIdle /\ ObsInit /\ MapIdle /\ ParIdle /\ CodecIdle /\ FitIdle /\ IdxInit /\ AucIdle

\* the iterator: run_iterations on the game above
Spec == Init /\ [][MccfrNext]_vars
\* the store under one caller
SpecStore == Init /\ [][StoreNext]_vars
\* the store shared by threads
SpecConc == Init /\ [][ConcNext]_vars
\* history condensation
SpecHist == Init /\ [][HistNext]_vars
\* regret_matching as a function
SpecRM == InitRM /\ [][RMNext]_vars
\* with_mask as a function
SpecMask == InitMask /\ [][MaskNext]_vars
\* the observation tracker under arbitrary records
SpecObs == Init /\ [][ObsNext]_vars
\* map_actions as a function
SpecMap == InitMap /\ [][MapNext]_vars
\* the parallel driver
SpecPar == InitPar /\ [][ParNext]_vars
\* the blueprint codec as a function
SpecCodec == InitCodec /\ [][CodecNext]_vars
\* the blueprint lookup as a function
SpecFit == InitFit /\ [][FitNext]_vars
\* the index round trip
SpecIdx == InitIdx /\ [][IdxNext]_vars
\* auction poker from State::new; a play goes on while an action is offered
SpecAuction == Init /\ [][AucNext]_vars

(***************************************************************************)
(* Properties of the store.                                                *)
(***************************************************************************)
\* the component-wise sum of two vectors of the same length
VecAdd(a, b) == [i \in 1..Len(a) |-> RAdd(a[i], b[i])]

\* the vector a map holds for k, with an absent entry read as zeros
OrZeros(map, k, len) == IF Has(map, k) THEN map[k] ELSE Zeros(len)

\* the last call passed deltas of the length the entry has (or is given)
LengthsMatch(c) ==
    /\ c.d_reg.some \/ c.d_strat.some
    /\ c.d_reg.some /\ c.d_strat.some => Len(c.d_reg.v) = Len(c.d_strat.v)
    /\ c.d_reg.some /\ Has(c.pre.regret_map, c.k) =>
            Len(c.pre.regret_map[c.k]) = Len(c.d_reg.v)
    /\ c.d_strat.some /\ Has(c.pre.policy_map, c.k) =>
            Len(c.pre.policy_map[c.k]) = Len(c.d_strat.v)

\* C1: update is an additive upsert.  After update(k, dR, dS) with deltas of
\* the entry's length, the regret vector of k is the previous one (zeros if
\* k was absent) plus dR and the strategy vector of k is the previous one
\* (zeros if absent) plus dS, component-wise; a vector whose delta is None
\* is left as it was; no other key's entry changes.
C1_UpdateIsAdditiveUpsert ==
    LET c == lastCall
        n == UpdateLen(c.d_reg, c.d_strat)
    IN  (c.outcome # "none" /\ LengthsMatch(c)) =>
          /\ c.outcome = "ok"
          /\ IF c.d_reg.some
             THEN Regrets(store, c.k) = Some(VecAdd(OrZeros(c.pre.regret_map, c.k, n), c.d_reg.v))
             ELSE Regrets(store, c.k) = Regrets(c.pre, c.k)
          /\ IF c.d_strat.some
             THEN Policy(store, c.k) = Some(VecAdd(OrZeros(c.pre.policy_map, c.k, n), c.d_strat.v))
             ELSE Policy(store, c.k) = Policy(c.pre, c.k)
          /\ \A k2 \in StoreKeys \ {c.k} :
                /\ Regrets(store, k2) = Regrets(c.pre, k2)
                /\ Policy(store, k2) = Policy(c.pre, k2)

\* C1 witness: an update with both deltas on a key that already holds
\* non-zero vectors, while another key is present too
C1_Witness ==
    /\ lastCall.outcome = "ok"
    /\ LengthsMatch(lastCall)
    /\ lastCall.d_reg.some /\ lastCall.d_strat.some
    /\ Has(lastCall.pre.regret_map, lastCall.k)
    /\ Has(lastCall.pre.policy_map, lastCall.k)
    /\ lastCall.pre.regret_map[lastCall.k] # Zeros(Len(lastCall.d_reg.v))
    /\ \E k2 \in StoreKeys \ {lastCall.k} : Has(store.regret_map, k2)

\* the last call passed a delta whose length differs from that of the
\* stored vector, or two deltas of different lengths
LengthMismatch(c) ==
    \/ c.d_reg.some /\ c.d_strat.some /\ Len(c.d_reg.v) # Len(c.d_strat.v)
    \/ c.d_reg.some /\ Has(c.pre.regret_map, c.k)
          /\ Len(c.pre.regret_map[c.k]) # Len(c.d_reg.v)
    \/ c.d_strat.some /\ Has(c.pre.policy_map, c.k)
          /\ Len(c.pre.policy_map[c.k]) # Len(c.d_strat.v)

\* C4: an update whose delta length differs from the length of the stored
\* vector of k, or whose two deltas differ in length, panics.
C4_MismatchedUpdatePanics ==
    (lastCall.outcome # "none" /\ LengthMismatch(lastCall)) => lastCall.outcome = "panic"

(***************************************************************************)
(* Properties of the shared store.                                         *)
(***************************************************************************)
\* C2: no update is lost.  The regret vector of k holds, at every position,
\* the number of update calls that have added their +1; when every thread
\* has made its UpdatesPerThread calls that is NumThreads * UpdatesPerThread;
\* and a regrets(k) read reflects every update that had returned, on any
\* thread, when the read started.
C2_NoLostUpdate ==
    LET r == Regrets(shared, ConcKey)
    IN  /\ Completed > 0 => r.some
        /\ r.some => Len(r.v) = ConcLen
        /\ r.some => \A i \in 1..ConcLen : r.v[i] = RInt(Completed)
        /\ (\A t \in Threads : thr[t].done = UpdatesPerThread) =>
              \A i \in 1..ConcLen : r.v[i] = RInt(NumThreads * UpdatesPerThread)
        /\ observed.floor > 0 => observed.read.some
        /\ observed.read.some =>
              \A i \in 1..ConcLen : RLeq(RInt(observed.floor), observed.read.v[i])

\* C2 witness: every thread has finished its updates and one of them has
\* read the regrets after the last update returned
C2_Witness ==
    /\ \A t \in Threads : thr[t].done = UpdatesPerThread
    /\ observed.read.some
    /\ observed.floor = Completed
    /\ observed.read.v[1] = RInt(Completed)
    /\ thr[observed.by].done < Completed

(***************************************************************************)
(* Properties of history condensation.                                     *)
(***************************************************************************)
\* C5: condensation is a round trip and injective.  For every history
\* whose key fits in 64 bits, History::from(h.into_condensed()) is h, and
\* two different such histories have different keys.
C5_CondenseRoundTrip ==
    /\ \A p \in HistPlayers :
          ~packed[p].overflow => unpacked[p] = hist[p]
    /\ \A p1, p2 \in HistPlayers :
          (~packed[p1].overflow /\ ~packed[p2].overflow /\ hist[p1] # hist[p2])
              => packed[p1].word # packed[p2].word

\* C5 witness: [3, 0, 2, 1] has come back from its key, next to a history
\* that differs from a prefix of it only by a trailing zero
C5_Witness ==
    /\ hist[1] = <<3, 0, 2, 1>>
    /\ ~packed[1].overflow
    /\ unpacked[1] = <<3, 0, 2, 1>>
    /\ hist[2] = <<0, 0>>
    /\ unpacked[2] = <<0, 0>>

(***************************************************************************)
(* Properties of regret_matching.                                          *)
(***************************************************************************)
\* the uniform distribution on the mask
UniformOnMask(mask) ==
    [i \in 1..Len(mask) |-> IF mask[i] THEN Rat(1, CountTrue(mask)) ELSE RZero]

\* C6: regret_matching(R, mask) on a regret vector whose positive part is
\* all zero on the mask returns the uniform distribution on the mask:
\* 1/|mask| at the indices of the mask and 0 elsewhere.
C6_ZeroPositivePartUniformOnMask ==
    (rmOut.some /\ PositivePart(rmIn.reg, rmIn.mask) = Zeros(MaxIndex))
        => rmOut.v = UniformOnMask(rmIn.mask)

(***************************************************************************)
(* Properties of the iterator.                                             *)
(***************************************************************************)
StoredKeys(map) == DOMAIN map

\* C3: for every info key visited during training the regret vector and
\* the strategy vector of its entry have the same length, and the length
\* of a stored vector never changes after its insertion.
C3_LengthsEqualAndFixed ==
    /\ [](\A p \in Players :
            \A k \in StoredKeys(strategies[p].regret_map) \cap StoredKeys(strategies[p].policy_map) :
                Len(strategies[p].regret_map[k]) = Len(strategies[p].policy_map[k]))
    /\ [][\A p \in Players :
            /\ \A k \in StoredKeys(strategies[p].regret_map) :
                  /\ k \in StoredKeys(strategies'[p].regret_map)
                  /\ Len(strategies'[p].regret_map[k]) = Len(strategies[p].regret_map[k])
            /\ \A k \in StoredKeys(strategies[p].policy_map) :
                  /\ k \in StoredKeys(strategies'[p].policy_map)
                  /\ Len(strategies'[p].policy_map[k]) = Len(strategies[p].policy_map[k])]_vars

\* C3 witness: a regret update has just been added to an entry that held
\* a regret vector and a strategy vector already
C3_Witness ==
    /\ lastNode.kind = "Update"
    /\ lastNode.before.some
    /\ lastNode.after.some
    /\ lastNode.after # lastNode.before
    /\ Policy(strategies[lastNode.player], lastNode.key).some

\* C7: at every updated-player node, baseline = sum_i v[i] * regret_dist[i],
\* the regret delta written is v[i] - baseline on the mask and 0 off it, and
\* sum_i regret_dist[i] * delta[i] = 0, whatever the regret state of the
\* info set and the mask.
C7_BaselineProperty ==
    lastNode.kind = "Update" =>
        /\ lastNode.baseline = Dot(lastNode.values, lastNode.regret_dist)
        /\ \A i \in 1..Len(lastNode.mask) :
              lastNode.delta[i] = IF lastNode.mask[i]
                                  THEN RSub(lastNode.values[i], lastNode.baseline)
                                  ELSE RZero
        /\ Dot(lastNode.regret_dist, lastNode.delta) = RZero

\* the legal actions the sampling loop of the last updated node passed over
Unsampled(n) == {i \in 1..Len(n.mask) : n.mask[i] /\ ~n.sampled[i]}

\* the regret vector of the node's info set before its store update, an
\* absent entry read as zeros
BeforeOrZeros(n) == IF n.before.some THEN n.before.v ELSE Zeros(Len(n.mask))

\* C8, as stated: a legal action that is not sampled has the same
\* cumulative regret after the node's store update as before it.
C8_UnsampledRegretUnchanged ==
    lastNode.kind = "Update" =>
        \A i \in Unsampled(lastNode) : lastNode.after.v[i] = BeforeOrZeros(lastNode)[i]

\* C8, amended: a legal action that is not sampled enters the node's update
\* with value 0, and its cumulative regret changes by minus the baseline
\* sum_j v[j] * regret_dist[j] of the node.
C8_UnsampledRegretMinusBaseline ==
    lastNode.kind = "Update" =>
        \A i \in Unsampled(lastNode) :
            /\ lastNode.values[i] = RZero
            /\ lastNode.after.v[i] =
                  RSub(BeforeOrZeros(lastNode)[i], Dot(lastNode.values, lastNode.regret_dist))

\* C8 witness: an updated node with an unsampled legal action, a sampled
\* one and a baseline that is not zero
C8_Witness ==
    /\ lastNode.kind = "Update"
    /\ Unsampled(lastNode) # {}
    /\ \E i \in 1..Len(lastNode.mask) : lastNode.sampled[i]
    /\ lastNode.baseline # RZero

\* C9: run_iterations(n, eps) makes exactly n outer iterations, each with
\* one traversal per regular player, player 0 then player 1, every
\* traversal from a new Game (initial state, empty tracker) at depth 0 with
\* q = 1; the iterations counter grows by exactly n.
C9_RunIterations ==
    /\ \A j \in 1..Len(trace) :
          /\ trace[j].player = (j - 1) % NUM_REGULAR_PLAYERS
          /\ trace[j].depth = 0
          /\ trace[j].q = ROne
          /\ trace[j].game.state = StateNew
          /\ trace[j].game.observation_tracker = TrackerNew
    /\ driver.pc = "loop" =>
          /\ Len(trace) = NUM_REGULAR_PLAYERS * driver.i + driver.player
          /\ iterations = driver.start + driver.i
    /\ driver.pc = "call" =>
          /\ Len(trace) = NUM_REGULAR_PLAYERS * driver.i + driver.player + 1
          /\ iterations = driver.start + driver.i
    /\ driver.pc = "done" =>
          /\ Len(trace) = NUM_REGULAR_PLAYERS * driver.n
          /\ iterations = driver.start + driver.n

\* C9 witness: a run of two iterations, four traversals, has returned
C9_Witness ==
    /\ driver.pc = "done"
    /\ driver.n = 2
    /\ iterations = 2
    /\ Len(trace) = 4

\* C10: the traversal of a Marker node plays the marker's action and
\* recurses with q unchanged and depth + 1; no regret or strategy vector of
\* any info set changes at that node.
C10_MarkerNode ==
    [][(Entering /\ Node.kind = "Marker") =>
          /\ game' = Play(game, Node.action)
          /\ Len(stack') = Len(stack) + 1
          /\ stack'[Len(stack')].pc = "enter"
          /\ stack'[Len(stack')].updated_player = Top.updated_player
          /\ stack'[Len(stack')].q = Top.q
          /\ stack'[Len(stack')].depth = Top.depth + 1
          /\ strategies' = strategies]_vars

\* C10 witness: a marker has just been played below a sampled action, on
\* a path where q is below 1 and stores are not empty
C10_Witness ==
    /\ lastNode.kind = "Marker"
    /\ stack # <<>>
    /\ Top.pc = "enter"
    /\ Top.q # ROne
    /\ Top.depth > 1
    /\ strategies[0] # EmptyStore

\* every component of v is >= 0
NonNegative(v) == \A i \in 1..Len(v) : RLeq(RZero, v[i])

\* C11: in every store state reached during training every component of
\* every cumulative strategy vector is >= 0; cumulative regrets may be
\* negative, and the distribution derived from them for sampling (and
\* added to the strategy) has no negative component.
C11_StrategyNonNegative ==
    /\ \A p \in Players : \A k \in StoredKeys(strategies[p].policy_map) :
          NonNegative(strategies[p].policy_map[k])
    /\ lastNode.kind = "Opponent" => NonNegative(lastNode.delta)
    /\ lastNode.kind = "Update" => NonNegative(lastNode.regret_dist)
    /\ \A j \in 1..Len(stack) :
          stack[j].pc \in {"loop", "wait"} => NonNegative(stack[j].regrets)

\* C11 witness: an opponent node whose info set holds a negative and a
\* positive cumulative regret has just added the distribution derived from
\* them to the cumulative strategy
C11_Witness ==
    /\ lastNode.kind = "Opponent"
    /\ \E p \in Players :
          /\ Has(strategies[p].regret_map, lastNode.key)
          /\ Has(strategies[p].policy_map, lastNode.key)
          /\ \E i \in 1..MaxIndex : RLess(strategies[p].regret_map[lastNode.key][i], RZero)
          /\ \E i \in 1..MaxIndex : RLess(RZero, strategies[p].regret_map[lastNode.key][i])
          /\ \E i \in 1..MaxIndex : RLess(RZero, strategies[p].policy_map[lastNode.key][i])
          /\ \E i \in 1..MaxIndex : strategies[p].policy_map[lastNode.key][i] = RZero

(***************************************************************************)
(* Properties of Categorical::with_mask.                                   *)
(***************************************************************************)
\* C12: with_mask(m), for a mask with at least one true entry, yields
\* probabilities that sum to 1, are 0 wherever m[i] is false and are never
\* negative; when every masked-in weight is zero it yields the uniform
\* distribution over the true entries of m.
C12_WithMask ==
    wmOut.some =>
        /\ Len(wmOut.v) = Len(wmIn.mask)
        /\ RSum(wmOut.v) = ROne
        /\ \A i \in 1..Len(wmIn.mask) : ~wmIn.mask[i] => wmOut.v[i] = RZero
        /\ NonNegative(wmOut.v)
        /\ (\A i \in 1..Len(wmIn.mask) : wmIn.mask[i] => wmIn.probs[i] = RZero)
              => wmOut.v = UniformOnMask(wmIn.mask)

\* C12 witness: the mask has removed all the weight of the distribution
\* and left two entries, which share the probability
C12_Witness ==
    /\ wmOut.some
    /\ \E i \in 1..MaxIndex : ~wmIn.mask[i] /\ wmIn.probs[i] = ROne
    /\ CountTrue(wmIn.mask) = 2
    /\ \E i \in 1..MaxIndex : wmOut.v[i] = Rat(1, 2)

(***************************************************************************)
(* Properties of the observation tracker.                                  *)
(***************************************************************************)
\* C14: observe respects visibility.  A Public record is recorded by every
\* regular player, a Private record only by the active player (by nobody
\* when the active node is not a Player node), a Shared record only by the
\* listed players; what the other players hold is unchanged and a Discard
\* record changes nothing.
C14_ObserveRespectsVisibility ==
    [][nobs' = nobs + 1 =>
        LET o == lastObs'.obs
            a == lastObs'.active
            to == CASE o.vis = "Public" -> Players
                    [] o.vis = "Private" -> {p \in Players : a = Some(p)}
                    [] o.vis = "Shared" -> o.players
        IN  \A p \in Players :
              /\ trk'.player_info_sets[p] =
                    IF o.info = "Action" /\ p \in to
                    THEN Append(trk.player_info_sets[p], o.index)
                    ELSE trk.player_info_sets[p]
              /\ trk'.player_feature_sets[p] =
                    IF o.info = "Features" /\ p \in to
                    THEN Some(o.features)
                    ELSE trk.player_feature_sets[p]]_vars

\* C14 witness: a Private action record observed while player 1 was active
\* has reached player 1 and not player 0
C14_Witness ==
    /\ lastObs.obs.vis = "Private"
    /\ lastObs.obs.info = "Action"
    /\ lastObs.active = Some(1)
    /\ trk.player_info_sets[1] # lastObs.pre.player_info_sets[1]
    /\ trk.player_info_sets[0] = lastObs.pre.player_info_sets[0]
    /\ trk.player_info_sets[0] # <<>>

\* C15: once a player has been sent a Features record, history(player) is
\* the indices of the feature vector sent last, whatever Action records
\* came before or after; a player never sent one gets the action indices
\* sent, in order.
C15_FeaturesReplaceHistory ==
    \A p \in Players :
        GetHistory(trk, p) =
            IF received[p].features.some
            THEN [i \in 1..Len(received[p].features.v) |->
                     FeatureIndex(received[p].features.v[i])]
            ELSE received[p].actions

\* C15 witness: player 0 was sent an action, a feature vector, and then
\* another feature vector, and holds the indices <<167, 1>> of the last
C15_Witness ==
    /\ received[0].actions # <<>>
    /\ received[0].features = Some(<<Ranks(12, 11), Suited(TRUE)>>)
    /\ lastObs.pre.player_feature_sets[0] = Some(<<Pot(199)>>)
    /\ GetHistory(trk, 0) = <<167, 1>>
    /\ GetHistory(trk, 1) # <<167, 1>>


\* the steps of the traversal that play an action on the game
PlayKinds == {"Chance", "Marker", "Opponent", "Sample"}

\* C13: after every play of an action, the tracker is the tracker before
\* the play with the observations of the state before the play recorded
\* for the player active before the play, the state is the state before
\* the play updated by the action, and a Private action record has reached
\* the player active before the play and no other player.
C13_PlayOrder ==
    lastNode.kind \in PlayKinds =>
        LET pre == lastNode.pre
            action == lastNode.action
            active_player == AsIndex(ActivePlayer(pre.state))
            observations == GetObservations(pre.state, action)
        IN  /\ game.state = StateUpdate(pre.state, action)
            /\ game.observation_tracker =
                   ObserveAll(pre.observation_tracker, observations, active_player)
            /\ \A i \in 1..Len(observations) :
                   observations[i].vis = "Private" /\ observations[i].info = "Action" =>
                       \A p \in Players :
                           game.observation_tracker.player_info_sets[p] =
                               IF active_player = Some(p)
                               THEN Append(pre.observation_tracker.player_info_sets[p],
                                           observations[i].index)
                               ELSE pre.observation_tracker.player_info_sets[p]

\* C13 witness: player 1 has played its private action from a Player node
\* and the game has moved on to the terminal node; the action is in player
\* 1's information set and not in player 0's
C13_Witness ==
    /\ lastNode.kind \in {"Opponent", "Sample"}
    /\ ActivePlayer(lastNode.pre.state).kind = "Player"
    /\ AsIndex(ActivePlayer(lastNode.pre.state)) = Some(1)
    /\ ActivePlayer(game.state).kind = "Terminal"
    /\ GetObservations(lastNode.pre.state, lastNode.action)[1].vis = "Private"
    /\ Len(game.observation_tracker.player_info_sets[1]) =
          Len(lastNode.pre.observation_tracker.player_info_sets[1]) + 1
    /\ game.observation_tracker.player_info_sets[0] =
          lastNode.pre.observation_tracker.player_info_sets[0]


(***************************************************************************)
(* Properties of the action abstraction.                                   *)
(***************************************************************************)
\* the mapper the call finds at its depth
MapperAt == mapIn.gm.depth_specific_maps[mapIn.depth + 1]
\* the call has returned a list
MapReturned == mapOut.some /\ ~mapOut.v.panic
\* the group of an input action: the position of the first predicate that
\* matches it, its natural index where no mapper is installed
GroupOf(mapper, a) == IF mapper.some THEN ToIndex(mapper.v, a) ELSE a.index
\* an output action stands for group k
InGroup(mapper, a, k) ==
    IF mapper.some THEN a = mapper.v[k + 1].action ELSE a.index = k
\* the groups with a member in the input list
GroupsPresent ==
    {GroupOf(MapperAt, mapIn.actions[i]) : i \in 1..Len(mapIn.actions)}

\* C16: a list returned by map_actions holds exactly one action for every
\* group with a member in the input list and as many actions as there are
\* such groups.
C16_OneActionPerGroup ==
    MapReturned =>
        /\ Len(mapOut.v.v) = Cardinality(GroupsPresent)
        /\ \A k \in GroupsPresent :
              Cardinality({j \in 1..Len(mapOut.v.v) :
                              InGroup(MapperAt, mapOut.v.v[j], k)}) = 1

\* the elements of a sequence
Range(seq) == {seq[i] : i \in 1..Len(seq)}
\* the actions of the input list with a given natural index, in input order
SameIndex(i) == SelectSeq(mapIn.actions, LAMBDA a : a.index = i)

ThreadsOf(batch) == {j \in 1..Len(pthreads) : pthreads[j].batch = batch}
\* the sum of a sequence of integers
RECURSIVE SumSeq(_)
SumSeq(seq) == IF seq = <<>> THEN 0 ELSE Head(seq) + SumSeq(Tail(seq))
\* the iterations run by the threads that have completed their closure
Executed ==
    SumSeq([j \in 1..Len(pthreads) |->
               IF pthreads[j].state \in {"finished", "joined"}
               THEN pthreads[j].iters ELSE 0])

\* C18: when run_iterations(total, eps) has returned, the iterations run
\* by its workers over all batches add up to total.
C18_RunsTotalIterations ==
    pdriver.pc = "returned" => Executed = pdriver.iterations

\* C19: in a batch the per-worker counts add up to batch_size, differ by
\* at most one, the first batch_size mod N workers have the extra
\* iteration, and once the spawn loop is over every worker 0..N-1 has
\* exactly one thread of the batch, run with its count.
C19_BatchSplit ==
    pdriver.pc \in {"spawn", "join", "save"} =>
        LET ti == pdriver.thread_iters
            N == par.threads
            mine == ThreadsOf(pdriver.i)
        IN  /\ Len(ti) = N
            /\ SumSeq(ti) = batch_size
            /\ \A a, b \in 1..N : ti[a] - ti[b] <= 1
            /\ \A a \in 1..N :
                  ti[a] = (batch_size \div N) + (IF a <= batch_size % N THEN 1 ELSE 0)
            /\ Cardinality(mine) = (IF pdriver.pc = "spawn" THEN pdriver.k ELSE N)
            /\ \A w \in 0..(Cardinality(mine) - 1) :
                  /\ Cardinality({j \in mine : pthreads[j].worker = w}) = 1
                  /\ \A j \in mine : pthreads[j].worker = w => pthreads[j].iters = ti[w + 1]

\* C19 witness: three workers, the spawn loop of a batch is over, the
\* counts are 334, 333, 333 and three threads of the batch exist
C19_Witness ==
    /\ par.threads = 3
    /\ pdriver.pc = "join"
    /\ pdriver.thread_iters = <<334, 333, 333>>
    /\ Cardinality(ThreadsOf(pdriver.i)) = 3

\* C20: at the checkpoint of a batch every thread spawned so far has been
\* joined, so none is running; a thread of batch b exists only after the
\* checkpoints of the batches before b have been written (where a file
\* name is set); and when run_iterations has returned every thread spawned
\* has been joined.
C20_CheckpointBetweenBatches ==
    /\ pdriver.pc = "save" =>
          \A j \in 1..Len(pthreads) : pthreads[j].state = "joined"
    /\ par.file_name =>
          /\ \A j \in 1..Len(pthreads) : checkpoints >= pthreads[j].batch
          /\ \A j \in 1..Len(pthreads) :
                pthreads[j].batch < checkpoints => pthreads[j].state = "joined"
          /\ pdriver.pc \in {"spawn", "join", "save"} => checkpoints = pdriver.i
    /\ pdriver.pc = "returned" =>
          \A j \in 1..Len(pthreads) : pthreads[j].state = "joined"

\* C20 witness: with a file name and two workers, the first checkpoint has
\* been written, a worker of the second batch is running, and the threads
\* of the first batch are joined
C20_Witness ==
    /\ par.file_name
    /\ par.threads = 2
    /\ checkpoints = 1
    /\ pdriver.i = 1
    /\ \E j \in ThreadsOf(1) : pthreads[j].state = "running"
    /\ \A j \in ThreadsOf(0) : pthreads[j].state = "joined"
    /\ Cardinality(ThreadsOf(0)) = 2


\* the threads that have panicked
Panicked == {j \in 1..Len(pthreads) : pthreads[j].state = "panicked"}

\* C21: once a worker of a batch has panicked, run_iterations is never at
\* the checkpoint of that batch and never in the returned state, no thread
\* of a later batch exists, and the checkpoints written are those of the
\* batches before; the driver, once panicked, changes nothing any more.
C21_WorkerPanicIsFatal ==
    /\ [](\A j \in Panicked :
            /\ pdriver.pc \notin {"save", "returned", "batch"}
            /\ pdriver.i = pthreads[j].batch
            /\ \A h \in 1..Len(pthreads) : pthreads[h].batch <= pthreads[j].batch
            /\ checkpoints = (IF par.file_name THEN pthreads[j].batch ELSE 0))
    /\ [][pdriver.pc = "panicked" =>
             /\ pdriver' = pdriver
             /\ checkpoints' = checkpoints
             /\ par' = par]_vars

\* C21 witness: the checkpoint of the first batch has been written, a
\* worker of the second batch has panicked while the other was running or
\* done, and the driver has panicked at its join
C21_Witness ==
    /\ par.file_name
    /\ par.threads = 2
    /\ pdriver.pc = "panicked"
    /\ checkpoints = 1
    /\ \E j \in Panicked : pthreads[j].batch = 1 /\ pthreads[j].worker = 1


(***************************************************************************)
(* Properties of the blueprint codec.                                      *)
(***************************************************************************)
\* |a - b| for two rationals
RDist(a, b) == IF RLess(a, b) THEN RSub(b, a) ELSE RSub(a, b)

\* C22: for a policy with entries in [0, 1], compress_policy returns and
\* every entry i < len(policy) of the decompressed vector differs from
\* policy[i] by at most 1/999.
C22_QuantisationRoundTrip ==
    codecOut.some =>
        /\ ~codecOut.v.panic
        /\ Len(codecOut.v.decompressed) >= Len(codecIn)
        /\ \A i \in 1..Len(codecIn) :
              RLeq(RDist(codecOut.v.decompressed[i], codecIn[i]), Rat(1, 999))

\* C23: for a policy of at most MAX_POLICY_LENGTH entries, compress_policy
\* returns and decompress_policy of its result has the length of the
\* policy and holds the quantised entries in the same order.
C23_DecompressInvertsCompress ==
    codecOut.some /\ Len(codecIn) <= MAX_POLICY_LENGTH =>
        /\ ~codecOut.v.panic
        /\ codecOut.v.decompressed =
              [i \in 1..Len(codecIn) |-> Decompress(Compress(codecIn[i]))]


(***************************************************************************)
(* Properties of the blueprint lookup.                                     *)
(***************************************************************************)
\* the queried history, the fit functions of its round, the window
FitHistory == FromCondensed(fitIn.info_set)
FitFunctions == EvaluatorOf(fitIn.evaluator, FitHistory[1])
FitWindow ==
    KeysInRange(fitIn.map,
        IntoCondensed([i \in 1..Len(FitFunctions) |->
                          GetMinMax(FitHistory[i], FitFunctions[i])[1]]).word,
        IntoCondensed([i \in 1..Len(FitFunctions) |->
                          GetMinMax(FitHistory[i], FitFunctions[i])[2]]).word)
\* the queried key is a key of the map
KeyPresent == \E e \in fitIn.map : e.key = fitIn.info_set
\* the evaluator has one fit function per slot of the queried history
OnePerSlot == Len(FitFunctions) = Len(FitHistory)
\* the loss of a key of the map against the query
LossOf(key) == Loss(FitHistory, FromCondensed(key), FitFunctions)

\* C24: when the queried key is in the map and the evaluator has one fit
\* function per slot, get_best returns the queried key and get_best_policy
\* returns what get_exact_policy returns.
C24_PresentKeyIsBest ==
    fitOut.some /\ KeyPresent /\ OnePerSlot =>
        /\ fitOut.v.best = [panic |-> FALSE, v |-> Some(fitIn.info_set)]
        /\ ~fitOut.v.exact_policy.panic
        /\ fitOut.v.best_policy = fitOut.v.exact_policy

\* C24 witness: the map holds the queried history <<0, 1, 6>> and, before
\* it in key order and inside the window, <<0, 1, 5>>; the lookup has
\* returned the policy of the queried key
C24_Witness ==
    /\ fitOut.some
    /\ fitIn.info_set = IntoCondensed(<<0, 1, 6>>).word
    /\ fitIn.map = BlueprintOf({<<0, 1, 5>>, <<0, 1, 6>>})
    /\ fitIn.evaluator.preflop = <<Exact, Exact, Difference>>
    /\ FitWindow = {IntoCondensed(<<0, 1, 5>>).word, IntoCondensed(<<0, 1, 6>>).word}
    /\ fitOut.v.best.v = Some(fitIn.info_set)
    /\ fitOut.v.best_policy.v.some

\* the keys of the window that agree with the query on every Exact slot
Qualifying ==
    {k \in FitWindow :
        \A i \in 1..Len(FitFunctions) :
            FitFunctions[i].kind = "Exact" => FromCondensed(k)[i] = FitHistory[i]}

\* C25: when the window holds keys of the map that agree with the query on
\* the Exact slots, get_best returns one of them whose loss is the least of
\* the window; in particular a query absent from the map whose only
\* candidate differs by 1 on one Difference slot gets that candidate.
C25_NearestFitIsArgmin ==
    fitOut.some /\ OnePerSlot /\ Qualifying # {} =>
        /\ ~fitOut.v.best.panic
        /\ fitOut.v.best.v.some
        /\ fitOut.v.best.v.v \in Qualifying
        /\ \A k \in FitWindow : LossOf(fitOut.v.best.v.v) <= LossOf(k)

\* C26: get_exact_policy returns None without a panic when the queried key
\* is not in the map, and get_best_policy returns None without a panic
\* when get_best finds no key.
C26_AbsenceIsNone ==
    fitOut.some =>
        /\ ~KeyPresent => fitOut.v.exact_policy = [panic |-> FALSE, v |-> None]
        /\ (~fitOut.v.best.panic /\ ~fitOut.v.best.v.some) =>
              fitOut.v.best_policy = [panic |-> FALSE, v |-> None]

(***************************************************************************)
(* Properties of concurrent readers of the store.                          *)
(***************************************************************************)
\* C27: an update with both deltas is atomic for other threads.  Every
\* update of SpecConc adds ones to the regrets of k and those with a
\* strategy delta add ones to the strategy of k, so a thread that reads
\* policy(k) and then regrets(k) never finds a strategy entry above the
\* regret entry read after it.
C27_UpdateIsAtomic ==
    [][\A t \in Threads :
          ReadRegretsAfterPolicy(t) =>
              /\ observed'.read.some
              /\ \A i \in 1..ConcLen : RLeq(thr[t].loaded[i], observed'.read.v[i])]_vars

(***************************************************************************)
(* Properties of the auction-poker action index.                           *)
(***************************************************************************)
\* C30: from() is an inverse of index() on the indices index() produces
\* for player actions: AuctionPokerAction::from(i).index() = i.
C30_FromInvertsIndex ==
    idxOut.some => idxOut.v.from.index = idxOut.v.index

(***************************************************************************)
(* Properties of the auction-poker state machine.                          *)
(***************************************************************************)
\* C28: the game is zero-sum at every leaf.  In every reachable Terminal
\* node (a fold, a showdown won or lost, a tie with an even or an odd pot)
\* the two utilities sum to 0.
C28_ZeroSumAtLeaves ==
    auc.active_player.kind = "Terminal" =>
        auc.active_player.utilities[1] + auc.active_player.utilities[2] = 0

\* the longest play: 11 deals, 4 steps of the auction, and in each betting
\* round the two markers, a check passed on, a raise and its marker up to
\* the aggression limit, and the call (no check opens the first round)
AucDepthBound == 33 + 8 * AGGRESSION_LIMIT

\* C29: every play ends in a Terminal node within the depth bound.  Each
\* transition adds one to the depth, the depth never passes the bound, and
\* a node that is not Terminal always offers an action and never panics.
\* With the limit of 6 raises the bound is 81, below MAX_GAME_DEPTH = 1000.
C29_PlayEndsWithinDepth ==
    /\ aucDepth <= AucDepthBound
    /\ auc.active_player.kind # "Panic"
    /\ auc.active_player.kind # "Terminal" => Offered(auc) # {}

\* C29 witness: a showdown reached through raises in the betting rounds
C29_Witness ==
    /\ auc.active_player.kind = "Terminal"
    /\ auc.community_cards = 5
    /\ aucDepth >= 35

\* C32: chips are conserved.  In every reachable state, so after every
\* Call, Check, Raise, Auction and BettingRoundEnd, the two stacks and the
\* pot add up to 2 * STACK_SIZE, no stack goes below zero and no
\* conservation assertion of update fails.
C32_ChipConservation ==
    /\ auc.stacks[0] + auc.stacks[1] + auc.pot = 2 * STACK_SIZE
    /\ auc.stacks[0] >= 0
    /\ auc.stacks[1] >= 0
    /\ auc.active_player.kind # "Panic"

\* C32 witness: a showdown after a tied auction with bids above zero and
\* an all-in, every chip in the pot
C32_Witness ==
    /\ auc.active_player.kind = "Terminal"
    /\ auc.community_cards = 5
    /\ auc.bids[0] = auc.bids[1]
    /\ auc.bids[0].some
    /\ auc.bids[0].v > 0
    /\ auc.pot = 2 * STACK_SIZE

\* the node offers player_num exactly the bids 0..chips and nothing else
OffersBids(node, player_num, chips) ==
    /\ node.kind = "Player"
    /\ node.player = player_num
    /\ Len(node.actions) = chips + 1
    /\ \A i \in 1..Len(node.actions) : node.actions[i].kind = "Bid"
    /\ {node.actions[i].x : i \in 1..Len(node.actions)} = 0..chips
\* the action played by a step out of a marker node
MarkerPlayed(kind) ==
    /\ auc.active_player.kind = "Marker"
    /\ auc.active_player.actions[1].kind = kind
    /\ auc' # auc
\* player_num has just bid
BidPlayed(player_num) ==
    /\ auc.active_player.kind = "Player"
    /\ auc.active_player.player = player_num
    /\ auc.active_player.actions[1].kind = "Bid"
    /\ auc' # auc

\* C33: the order of the auction.  After the AuctionStart marker player 1
\* bids first and player 0 second, each offered exactly the bids from 0 to
\* the stack and no other action; after both bids the node is the marker
\* Auction(winner), the winner being the strictly higher bidder and Tie
\* for equal bids; after the Auction marker chance deals a hole card.
C33_AuctionOrder ==
    [][/\ MarkerPlayed("AuctionStart") =>
              OffersBids(auc'.active_player, 1, auc.stacks[1])
       /\ BidPlayed(1) =>
              /\ ~auc.bids[0].some
              /\ OffersBids(auc'.active_player, 0, auc.stacks[0])
       /\ BidPlayed(0) =>
              /\ auc'.active_player.kind = "Marker"
              /\ Len(auc'.active_player.actions) = 1
              /\ auc'.active_player.actions[1].kind = "Auction"
              /\ auc'.active_player.actions[1].x =
                    IF auc'.bids[0].v > auc'.bids[1].v THEN 0
                    ELSE IF auc'.bids[1].v > auc'.bids[0].v THEN 1
                    ELSE 2
       /\ MarkerPlayed("Auction") =>
              /\ auc'.active_player.kind = "Chance"
              /\ auc'.active_player.actions[1].kind = "DealHole"]_vars

\* C33 witness: a tied auction has been resolved and chance is about to
\* deal the first of the two extra hole cards
C33_Witness ==
    /\ auc.active_player.kind = "Chance"
    /\ auc.active_player.actions[1].kind = "DealHole"
    /\ auc.bids[0].some
    /\ auc.bids[1] = auc.bids[0]
    /\ auc.hand_size[0] = 3
    /\ auc.cards[0] = 2

\* a betting node: a Player node that is not offered bids
BettingNode(node) ==
    /\ node.kind = "Player"
    /\ \A i \in 1..Len(node.actions) : node.actions[i].kind # "Bid"
\* the kinds of the actions a node offers
KindsOffered(node) == {node.actions[i].kind : i \in 1..Len(node.actions)}
\* a step in which a player puts chips in and the action passes on: a raise
RaisePlayed ==
    /\ BettingNode(auc.active_player)
    /\ auc'.active_player.kind = "Marker"
    /\ auc'.active_player.actions[1].kind = "PlayerActionEnd"
    /\ auc'.pot > auc.pot

\* C34: the raise cap.  The counter never passes AGGRESSION_LIMIT; a
\* betting node reached with the counter at the limit offers no Raise and
\* still offers Check, or Call and Fold; every raise adds one to the
\* counter and is made below the limit; every BettingRoundStart marker
\* sets the counter to 0.
C34_RaiseCap ==
    /\ [](/\ auc.aggression <= AGGRESSION_LIMIT
          /\ (BettingNode(auc.active_player) /\ auc.aggression = AGGRESSION_LIMIT) =>
                KindsOffered(auc.active_player) \in {{"Check"}, {"Call", "Fold"}})
    /\ [][/\ RaisePlayed =>
                 /\ auc.aggression < AGGRESSION_LIMIT
                 /\ auc'.aggression = auc.aggression + 1
          /\ MarkerPlayed("BettingRoundStart") => auc'.aggression = 0]_vars

\* C34 witness: the limit is reached while the player to act still has a
\* raise within the rules (the smallest raise, or else all-in with the
\* shorter stack), and is offered Call and Fold only
C34_Witness ==
    /\ BettingNode(auc.active_player)
    /\ auc.aggression = AGGRESSION_LIMIT
    /\ KindsOffered(auc.active_player) = {"Call", "Fold"}
    /\ LET p == auc.active_player.player
           min_raise == (IF auc.raise.some THEN auc.raise.v ELSE BIG_BLIND)
                            + auc.pips[Opponent(p)]
       IN  \/ /\ min_raise <= auc.stacks[p] + auc.pips[p]
              /\ min_raise <= auc.stacks[Opponent(p)] + auc.pips[Opponent(p)]
           \/ /\ auc.stacks[p] > 0
              /\ auc.stacks[p] <= auc.stacks[Opponent(p)]

(***************************************************************************)
(* Properties of the sampling bookkeeping of the iterator.                 *)
(***************************************************************************)
\* the frame of the recursive call a step has just made
Callee == stack'[Len(stack')]
\* a step that enters a Chance node, a Marker node or a node of the player
\* that is not updated
PassesOn ==
    /\ Entering
    /\ \/ Node.kind \in {"Chance", "Marker"}
       \/ Node.kind = "Player" /\ Node.player # Top.updated_player

\* C35: with eps in (0, 1], every sampling value of every updated-player
\* node is >= eps; the recursive call of a Chance, Marker or opponent node
\* gets the node's q, the recursive call for a sampled action i gets
\* q * min(sampling[i], 1); so 0 < q <= 1 in every call, and no division by
\* q divides by zero.
C35_SamplingBookkeeping ==
    /\ []((RLess(RZero, exploration) /\ RLeq(exploration, ROne)) =>
            \A j \in 1..Len(stack) :
                /\ RLess(RZero, stack[j].q)
                /\ RLeq(stack[j].q, ROne)
                /\ \A i \in 1..Len(stack[j].sampling_values) :
                      RLeq(exploration, stack[j].sampling_values[i]))
    /\ [][/\ PassesOn =>
                 /\ Len(stack') = Len(stack) + 1
                 /\ Callee.q = Top.q
          /\ (InLoop /\ Len(stack') = Len(stack) + 1) =>
                 Callee.q = RMul(Top.q, RMin(Top.sampling_values[Top.index], ROne))]_vars

\* C35 witness: a Terminal node is entered with q below 1, below an
\* updated-player node that sampled an action whose sampling value is
\* below 1, and an opponent node has divided by a q below 1 before
C35_Witness ==
    /\ Entering
    /\ Node.kind = "Terminal"
    /\ RLess(Top.q, ROne)
    /\ \E j \in 1..(Len(stack) - 1) :
          /\ stack[j].pc = "wait"
          /\ RLess(stack[j].sampling_values[stack[j].index], ROne)
          /\ stack[j + 1].q = RMul(stack[j].q, stack[j].sampling_values[stack[j].index])

\* the indices of a node's mask that are not legal at the node
Illegal(mask) == {i \in 1..Len(mask) : ~mask[i]}

\* C36: illegal actions never gain strategy mass.  After a node has written
\* to the store, the cumulative strategy and the cumulative regret of the
\* node's info set are 0 at every index outside the node's mapped legal
\* set, also when the info set had no regret entry before the visit.
C36_IllegalActionsGainNoMass ==
    /\ lastNode.kind = "Opponent" =>
          \A i \in Illegal(lastNode.mask) :
              strategies[lastNode.player].policy_map[lastNode.key][i] = RZero
    /\ lastNode.kind = "Update" =>
          \A i \in Illegal(lastNode.mask) :
              /\ lastNode.after.v[i] = RZero
              /\ Policy(strategies[lastNode.player], lastNode.key).v[i] = RZero

\* the player a traversal in progress updates
UpdatedPlayer == stack[1].updated_player

\* C37: a traversal with updated player p never changes a regret vector of
\* the other player's table, and in p's table it changes no strategy
\* value: a strategy entry of p that it creates is all zeros.  Between
\* traversals no table changes.
C37_TraversalWrites ==
    [][IF stack = <<>> THEN strategies' = strategies
       ELSE LET p == UpdatedPlayer
                other == 1 - p
            IN  /\ strategies'[other].regret_map = strategies[other].regret_map
                /\ \A k \in StoredKeys(strategies'[p].policy_map) :
                      IF k \in StoredKeys(strategies[p].policy_map)
                      THEN strategies'[p].policy_map[k] = strategies[p].policy_map[k]
                      ELSE strategies'[p].policy_map[k] =
                              Zeros(Len(strategies'[p].policy_map[k]))
                /\ StoredKeys(strategies[p].policy_map) \subseteq
                      StoredKeys(strategies'[p].policy_map)]_vars

\* C37 witness: in the second iteration the traversal that updates player
\* 0 has just added a regret update at an info set whose strategy entry it
\* created, all zeros, while player 1's table holds regret vectors from the
\* traversal before and strategy mass
C37_Witness ==
    /\ lastNode.kind = "Update"
    /\ lastNode.player = 0
    /\ lastNode.after # lastNode.before
    /\ Policy(strategies[0], lastNode.key) = Some(Zeros(MaxIndex))
    /\ strategies[1].regret_map # <<>>
    /\ \E k \in StoredKeys(strategies[1].policy_map) :
          strategies[1].policy_map[k] # Zeros(MaxIndex)
    /\ \E k \in StoredKeys(strategies[0].policy_map) :
          strategies[0].policy_map[k] # Zeros(MaxIndex)

(***************************************************************************)
(* Properties of the branching at an updated-player node.                  *)
(***************************************************************************)
\* a step of the sampling loop that plays an action and recurses
Branches == InLoop /\ Len(stack') = Len(stack) + 1
\* the step that ends an updated-player node
LeavesUpdated ==
    /\ stack # <<>>
    /\ Top.pc = "loop"
    /\ Top.index > Len(Top.sampling_values)

\* C38: at an updated-player node every sampled action is played from the
\* game the node was entered with, state and observation tracker; the key
\* of the node's regret update is the info key of that game; and whenever
\* the node runs its loop or returns, the worker's game is that game.
C38_BranchingRestoresGame ==
    /\ [](stack # <<>> /\ Top.pc = "loop" =>
            /\ game = Top.entry_game
            /\ Top.history = GetInformationSet(Top.entry_game, Top.updated_player))
    /\ [][/\ Branches =>
                 game' = Play(Top.entry_game, Top.mapped_actions[Top.index].v)
          /\ LeavesUpdated =>
                 /\ game' = Top.entry_game
                 /\ strategies' = [strategies EXCEPT ![Top.updated_player] =
                        StoreUpdate(@, GetInformationSet(Top.entry_game, Top.updated_player),
                                    Some(lastNode'.delta), None)]]_vars

\* C38 witness: an updated-player node has explored its first legal action
\* down to a leaf, has taken its game back, and is about to play its second
\* legal action
C38_Witness ==
    /\ InLoop
    /\ Top.mask[Top.index]
    /\ \E i \in 1..(Top.index - 1) : Top.sampled[i]
    /\ game = Top.entry_game
    /\ Top.entry_game # GameNew
    /\ lastNode.kind = "none"

(***************************************************************************)
(* Properties of a rejected update.                                        *)
(***************************************************************************)
\* the last call passed two deltas of different lengths and panicked
Rejected(c) ==
    /\ c.outcome = "panic"
    /\ c.d_reg.some
    /\ c.d_strat.some
    /\ Len(c.d_reg.v) # Len(c.d_strat.v)

\* C39: a rejected update leaves the store unchanged.  After
\* update(k, Some(dR), Some(dS)) has failed on deltas of different lengths,
\* size() and the regrets and policy reads of every key return what they
\* returned before the call.
C39_RejectedUpdateLeavesStore ==
    Rejected(lastCall) =>
        /\ StoreSize(store) = StoreSize(lastCall.pre)
        /\ \A k \in StoreKeys :
              /\ Regrets(store, k) = Regrets(lastCall.pre, k)
              /\ Policy(store, k) = Policy(lastCall.pre, k)

(***************************************************************************)
(* Properties of the driver's runners.                                     *)
(***************************************************************************)
\* the iterations counter of the runner a thread was spawned on
StartedAt(j) ==
    pthreads[j].runner.iterations
        - (IF pthreads[j].state \in {"finished", "joined"} THEN pthreads[j].iters ELSE 0)

\* C40: the worker set is stable across batches.  Before and after every
\* batch the driver owns exactly `threads` runners, and the runner a slot's
\* thread is spawned on in a batch is the one the slot's thread of the
\* batch before returned, so that its iterations counter accumulates.
C40_WorkerSetStable ==
    /\ pdriver.pc \in {"batch", "save", "returned"} => Len(par.runners) = par.threads
    /\ \A j, h \in 1..Len(pthreads) :
          (pthreads[j].batch = pthreads[h].batch + 1 /\ pthreads[j].worker = pthreads[h].worker)
              => StartedAt(j) = pthreads[h].runner.iterations

====
